---- MODULE Spec2Model ----
(***************************************************************************)
(* State-machine model of the qudi hardware drivers                        *)
(*   hardware/national_instruments_x_series.py  (NationalInstrumentsXSeries)*)
(*   hardware/fastcomtec/fastcomtecp7887.py     (FastComtec)               *)
(* Each public driver method is one action.  Calls into the vendor library *)
(* (PyDAQmx, dp7887.dll) are inputs of the action: the outcome of the call *)
(* is drawn from a small set.                                              *)
(***************************************************************************)
EXTENDS Integers, Sequences, FiniteSets, TLC

(***************************************************************************)
(* Bounds of the model                                                     *)
(***************************************************************************)
\* number of distinct DAQmx task handles that can exist at the same time
MaxTasks == 2

(***************************************************************************)
(* Python values                                                           *)
(***************************************************************************)
\* None for a task handle field
None == 0
\* None for an optional argument; a supplied value v is <<v>>
NoneArg == <<>>
\* None for an optional channel argument / a channel that is not configured
NoChannel == "None"

TaskIds == 1..MaxTasks
\* number of distinct handles of acquisition and analogue-output tasks
MaxRoleTasks == 3
\* number of waits after which a wait loop is no longer followed
MaxWaits == 22
\* the largest number of sweep points a pulse generator is asked for
MaxPoints == 3
RoleTaskIds == 1..MaxRoleTasks
\* scanner axes wired to analogue outputs (x, y)
NAxes == 2

\* physical counter-output channels of the board
Channels == {"Ctr0", "Ctr1"}
\* ConfigOption clock_channels: pool of set_up_clock_new
clock_channels == <<"Ctr0", "Ctr1">>
\* caller-chosen names of the generalized clock registry; "Scanner_clock" is
\* the name set_up_finite_counter_clock uses
Names == {"A", "B", "Scanner_clock"}
BridgeNames == {"A", "Scanner_clock"}
\* clock_frequency arguments offered to the set-up methods
FreqArgs == {NoneArg, <<50>>}
\* ConfigOption defaults
default_clock_frequency == 100
default_scanner_clock_frequency == 100
default_samples_number == 50
finite_clock_frequency_default == 100
dummy_frequency == 100
\* outcome of the DAQmx calls inside the try block of a set-up method:
\* all succeed, a call that creates or configures the task raises, or the
\* final DAQmxStartTask raises
HwOutcome == {"ok", "fail_config", "fail_start"}
\* outcome of the DAQmx calls of a close method: both succeed, or
\* DAQmxStopTask or DAQmxClearTask raises
CloseOutcome == {"ok", "fail"}
\* return values that are not error codes: the method raised (the exception
\* leaves the method), the method fell off its end and returned None
Raised == -2
RetNone == -3

\* dict helpers
Put(m, k, v) == [x \in (DOMAIN m) \cup {k} |-> IF x = k THEN v ELSE m[x]]
Pop(m, k) == [x \in (DOMAIN m) \ {k} |-> m[x]]
Values(m) == {m[x] : x \in DOMAIN m}
EmptyDict == [x \in {} |-> 0]

\* the analogue channel options of a configuration without analogue channels
NoAnalogueChannels ==
    [a_o_channels |-> {}, a_o_ranges |-> EmptyDict,
     a_i_channels |-> {}, a_i_ranges |-> EmptyDict]

VARIABLES
    \* fixed-role clock pair
    clock_daq_task, scanner_clock_daq_task,
    clock_channel, scanner_clock_channel,
    clock_frequency, scanner_clock_frequency, finite_clock_frequency,
    \* generalized clock registry
    clock_daq_task_new, clock_channel_new, clock_frequency_new,
    \* DAQmx side: the clock tasks of the driver library that a stored handle
    \* refers to, task id -> physical channel and pulse frequency given
    \* to DAQmxCreateCOPulseChanFreq.  A task whose handle the method dropped
    \* (an exception before the handle is stored) is out of the module's
    \* reach and is not tracked.
    hwClock,
    \* the last call: method, its role/name argument, its return value, the
    \* message it logged and the registry names it released
    call, ret, log, closed,
    \* acquisition roles: the lists of counter task handles, the gated
    \* counter handle, the scanner analogue-output handle, and the tasks of
    \* the driver library those handles refer to
    counter_daq_tasks, scanner_counter_daq_tasks, gated_counter_daq_task,
    scanner_ao_task, hwRole,
    \* confocal scanner: module_state() of the module base class, the
    \* current-position vector, and the number of DAQmxWriteAnalogF64 calls
    \* the last scanner command made
    module_state, current_position, ao_writes,
    \* FastComtec driver fields
    gated, stopped_or_halt, timetrace_tmp,
    \* FastComtec: the wait loop a measure command is in ("idle": none), its
    \* i_wait, the time.sleep(0.05) waits it has made, whether a get_status call is
    \* inside its own loop, the last status.started read from the card, and
    \* whether configure was called
    pc, i_wait, waits, in_get_status, dev_started, configured,
    \* FastComtec: the LVGetDat read and the result of the last command, if it
    \* was get_data_trace (<<>> otherwise)
    fresh, result,
    \* the number of configured scanner analogue input channels and the
    \* scanner's analogue input task
    scanner_ai_channels, scanner_analog_daq_task,
    \* the analogue voltage reader: the task of each configured reader
    \* channel, the 'started' flag, and for every reader task of the card
    \* whether it is started
    analogue_input_daq_tasks, analogue_input_started, hwReader,
    \* the sample timing type of the scanner analogue output task and whether
    \* the scanner clock's output is routed to the pixel clock terminal
    ao_timing_type, pixel_clock_connected,
    \* the data array most recently returned by get_counter or scan_line (<<>>
    \* before the first, and when that call returned no data array)
    all_data,
    \* the raw samples DAQmxReadCounterU32 delivered to that call
    count_data,
    \* cavity console: which widgets and actions are enabled, the state of
    \* the 'use maximal resolution' check box and the value shown by the
    \* scan resolution spin box
    enabled, max_scan_resolution_checkBox, scan_resolution_spinBox,
    \* cavity console: the value on the maximal scan resolution display
    maximal_scan_resolution_DisplayWidget,
    \* cavity logic: the run in progress, the stop request of the console and
    \* the scan parameters the console writes
    run, stopRequested, start_voltage, end_voltage, scan_resolution,
    use_maximal_resolution,
    \* FastComtec: a call into dp7887.dll raised during the last command
    dll_error,
    \* FastComtec: the card's acquisition settings, written by RunCmd and read
    \* by GetSettingData (range in bins, bitshift, cycles)
    setting,
    \* pulse generators: the elements of the measurement block, the ensemble
    \* and the measurement information of the last generator call
    block, block_ensemble, measurement_information,
    \* DAQ driver: the voltage ranges of the analogue output and input
    \* channels, name -> <<vlow, vhigh>>
    ao_voltage_range, ai_voltage_range,
    \* scanner console: the 1-D and 2-D scan docks in the order of the two
    \* dictionaries, the position spin box and the slider of every axis, the
    \* zoom action of the main window and the dock layout of the main window
    scan_1d_dockwidgets, scan_2d_dockwidgets, pos_spinbox, slider,
    action_utility_zoom, mw,
    \* scanner console: the scan docks the last slot constructed, the signals
    \* it emitted and the widgets whose value it set
    constructed, emitted, written

clockVars == <<clock_daq_task, scanner_clock_daq_task, clock_channel,
               scanner_clock_channel, clock_frequency, scanner_clock_frequency,
               finite_clock_frequency, clock_daq_task_new, clock_channel_new,
               clock_frequency_new>>
obsVars == <<call, ret, log, closed>>

roleVars == <<counter_daq_tasks, scanner_counter_daq_tasks,
              gated_counter_daq_task, scanner_ao_task, hwRole>>
scanVars == <<module_state, current_position, ao_writes, scanner_ai_channels,
              scanner_analog_daq_task, all_data, count_data, ao_timing_type,
              pixel_clock_connected>>
fctVars == <<gated, stopped_or_halt, timetrace_tmp, pc, i_wait, waits,
             in_get_status, dev_started, configured, fresh, result, dll_error,
             setting>>
guiVars == <<enabled, max_scan_resolution_checkBox, scan_resolution_spinBox, run,
             stopRequested, start_voltage, end_voltage, scan_resolution,
             use_maximal_resolution, maximal_scan_resolution_DisplayWidget>>
\* the state of the NationalInstrumentsXSeries object and of its tasks
niVars == <<clockVars, hwClock, roleVars, scanVars>>

pulseVars == <<block, block_ensemble, measurement_information>>
\* the state outside the two drivers and the cavity console
rangeVars == <<ao_voltage_range, ai_voltage_range>>
\* the state of the ScannerGui object and of its widgets
consoleVars == <<scan_1d_dockwidgets, scan_2d_dockwidgets, pos_spinbox, slider,
                 action_utility_zoom, mw, constructed, emitted, written>>
readerVars == <<analogue_input_daq_tasks, analogue_input_started, hwReader>>
otherVars == <<pulseVars, rangeVars, consoleVars, readerVars>>

vars == <<clockVars, hwClock, obsVars, roleVars, scanVars, fctVars, guiVars,
          otherVars>>

\* handles some field of the driver still refers to
Referenced == ({clock_daq_task, scanner_clock_daq_task}
               \cup Values(clock_daq_task_new)) \ {None}
UsedTasks == Referenced \cup DOMAIN hwClock
CanCreate == \E t \in TaskIds : t \notin UsedTasks
\* daq.TaskHandle(): a handle distinct from every handle in use
FreshTask == CHOOSE t \in TaskIds : t \notin UsedTasks
                 /\ \A u \in TaskIds : u \notin UsedTasks => t <= u

\* a clock task the device holds: the counter output channel and the pulse
\* frequency handed to DAQmxCreateCOPulseChanFreq
HwTask(ch, f) == [channel |-> ch, pulse_frequency |-> f]

\* DAQmxStopTask/DAQmxClearTask on None or on a cleared task raise
Live(t) == t \in DOMAIN hwClock

\* cavity console: the parameter inputs and the tool bar actions
ParamWidgets == {"start_spinBox", "stop_spinBox", "position_spinBox",
                 "position_slider", "scan_frequency_spinBox",
                 "scan_resolution_spinBox", "threshold_spinBox",
                 "voltage_adjustment_steps_spinBox", "average_number_spinBox"}
StartActions == {"action_start_scanning", "action_stabilize_cavity"}
StopActions == {"action_stop_scanning", "action_stop_stabilization"}
Widgets == ParamWidgets \cup StartActions \cup StopActions

\* the driver after on_activate, whatever scanner_ai_channels is configured
InitDriver ==
    /\ clock_daq_task = None
    /\ scanner_clock_daq_task = None
    /\ clock_channel \in Channels
    /\ scanner_clock_channel \in Channels
    /\ clock_frequency = 0
    /\ scanner_clock_frequency = 0
    /\ finite_clock_frequency = finite_clock_frequency_default
    /\ clock_daq_task_new = EmptyDict
    /\ clock_channel_new = EmptyDict
    /\ clock_frequency_new = EmptyDict
    /\ hwClock = EmptyDict
    /\ call = [op |-> "on_activate", arg |-> NoAnalogueChannels]
    /\ ret = 0
    /\ log = ""
    /\ closed = {}
    /\ counter_daq_tasks = <<>>
    /\ scanner_counter_daq_tasks = <<>>
    /\ gated_counter_daq_task = None
    \* on_activate starts the analogue output and raises when that fails
    /\ scanner_ao_task = 1
    /\ hwRole = {1}
    /\ module_state = "idle"
    /\ current_position = [i \in 1..NAxes |-> 0]
    /\ ao_writes = 0
    /\ gated = FALSE
    /\ stopped_or_halt = "stopped"
    /\ timetrace_tmp = <<>>
    /\ pc = "idle"
    /\ i_wait = 0
    /\ waits = 0
    /\ in_get_status = FALSE
    /\ dev_started = 0
    /\ configured = FALSE
    /\ fresh = <<>>
    /\ result = <<>>
    /\ dll_error = FALSE
    \* on_activate: change_sweep_mode leaves a record of at most 3000 bins
    /\ setting = [range |-> 64, bitshift |-> 0, cycles |-> 1]
    /\ scanner_analog_daq_task = None
    /\ all_data = <<>>
    /\ count_data = <<>>
    /\ ao_timing_type = "OnDemand"
    /\ pixel_clock_connected = FALSE
    \* on_activate, lines 156, 168
    /\ analogue_input_daq_tasks = EmptyDict
    /\ analogue_input_started = FALSE
    /\ hwReader = EmptyDict
    \* CavityStabilisationGui.on_activate, lines 241-249; the actions and
    \* the check box are as Qt creates them
    /\ enabled = [w \in Widgets |-> TRUE]
    /\ max_scan_resolution_checkBox = FALSE
    /\ scan_resolution_spinBox = 1
    /\ run = "idle"
    /\ stopRequested = FALSE
    /\ start_voltage = 0
    /\ end_voltage = 1
    /\ scan_resolution = 1
    /\ use_maximal_resolution = FALSE
    \* on_activate, lines 204-206: calculate_resolution(16, [start, end])
    /\ maximal_scan_resolution_DisplayWidget = 1
    /\ ao_voltage_range = EmptyDict
    /\ ai_voltage_range = EmptyDict
    /\ block = <<>>
    /\ block_ensemble = <<>>
    /\ measurement_information = [alternating |-> FALSE, number_of_lasers |-> 0]
    \* ScannerGui.on_activate, lines 298-315: no scan dock yet, the axis
    \* widgets and the zoom action as Qt creates them
    /\ scan_1d_dockwidgets = <<>>
    /\ scan_2d_dockwidgets = <<>>
    /\ pos_spinbox = [a \in {"x", "y", "z"} |-> 0]
    /\ slider = [a \in {"x", "y", "z"} |-> 0]
    /\ action_utility_zoom = FALSE
    /\ mw = EmptyDict
    /\ constructed = {}
    /\ emitted = <<>>
    /\ written = {}

\* the default configuration: scanner_ai_channels = []
Init == InitDriver /\ scanner_ai_channels = 0

Returns(op, arg, r, msg) ==
    /\ call' = [op |-> op, arg |-> arg]
    /\ ret' = r
    /\ log' = msg

RoleName(scanner) == IF scanner THEN "Scanner" ELSE "Counter"

\* set_up_clock, lines 302-308: the role's own clock is already open
RoleClockRunning(scanner) ==
    IF scanner THEN scanner_clock_daq_task # None ELSE clock_daq_task # None

\* the shared-pair check compares the handles of the wrong role only
OnlyOneClockPair_OwnRole(scc, cc) ==
    scc = cc /\ ~(clock_daq_task = None \/ scanner_clock_daq_task = None)

\* set_up_clock, lines 347-348: both roles are bound to one channel and a
\* clock of either role is open
OnlyOneClockPair(scc, cc) ==
    scc = cc /\ ~(clock_daq_task = None /\ scanner_clock_daq_task = None)

(***************************************************************************)
(* set_up_clock(clock_frequency, clock_channel, scanner, idle)             *)
(* idle only selects the idle level handed to DAQmxCreateCOPulseChanFreq;  *)
(* no field of the driver stores it.                                       *)
(***************************************************************************)
\* line 379: the frequency argument of DAQmxCreateCOPulseChanFreq
PulseFrequency_NotHalved(my_clock_frequency) == my_clock_frequency
PulseFrequency(my_clock_frequency) == my_clock_frequency \div 2

set_up_clock(cf, cc, scanner, hw) ==
    LET op(r, msg) == Returns("set_up_clock", RoleName(scanner), r, msg)
        f == IF cf # NoneArg THEN cf[1]
             ELSE IF scanner THEN default_scanner_clock_frequency
                  ELSE default_clock_frequency
        new_cf == IF scanner THEN clock_frequency ELSE f
        new_scf == IF scanner THEN f ELSE scanner_clock_frequency
        my_clock_frequency == f * 2
        new_cc == IF cc # NoChannel /\ ~scanner THEN cc ELSE clock_channel
        new_scc == IF cc # NoChannel /\ scanner THEN cc ELSE scanner_clock_channel
        my_clock_channel == IF scanner THEN new_scc ELSE new_cc
        t == FreshTask
        pulse_frequency == PulseFrequency(my_clock_frequency)
    IN
    /\ closed' = {}
    /\ IF RoleClockRunning(scanner)
      THEN /\ op(-1, IF scanner THEN "Another scanner clock is already running"
                     ELSE "Another counter clock is already running")
           /\ UNCHANGED <<clockVars, hwClock>>
      ELSE
      /\ clock_frequency' = new_cf
      /\ scanner_clock_frequency' = new_scf
      /\ clock_channel' = new_cc
      /\ scanner_clock_channel' = new_scc
      /\ UNCHANGED <<finite_clock_frequency, clock_daq_task_new, clock_frequency_new>>
      /\ IF OnlyOneClockPair(new_scc, new_cc)
         THEN /\ op(-1, "Only one clock channel is available")
              /\ UNCHANGED <<clock_daq_task, scanner_clock_daq_task,
                             clock_channel_new, hwClock>>
         ELSE IF hw = "fail_config" \/ (hw = "fail_start" /\ ~scanner)
         THEN \* lines 403-405: the handle my_clock_daq_task is dropped
              /\ op(-1, "Error while setting up clock")
              /\ UNCHANGED <<clock_daq_task, scanner_clock_daq_task,
                             clock_channel_new, hwClock>>
         ELSE
           /\ CanCreate
           /\ hwClock' = Put(hwClock, t, HwTask(my_clock_channel, pulse_frequency))
           /\ IF scanner
              THEN /\ scanner_clock_daq_task' = t
                   /\ clock_channel_new' = Put(clock_channel_new, "Scanner", new_scc)
                   /\ UNCHANGED clock_daq_task
                   /\ op(0, "")
              ELSE /\ clock_daq_task' = t
                   /\ clock_channel_new' = Put(clock_channel_new, "Counter", new_cc)
                   /\ UNCHANGED scanner_clock_daq_task
                   /\ op(0, "")

(***************************************************************************)
(* close_clock(scanner)                                                    *)
(***************************************************************************)
close_clock(scanner, hw) ==
    LET op(r, msg) == Returns("close_clock", RoleName(scanner), r, msg)
        my_task == IF scanner THEN scanner_clock_daq_task ELSE clock_daq_task
    IN
    /\ closed' = {}
    /\ UNCHANGED <<clock_channel, scanner_clock_channel, clock_frequency,
                   scanner_clock_frequency, finite_clock_frequency,
                   clock_daq_task_new, clock_frequency_new>>
    /\ IF ~Live(my_task) \/ hw = "fail"
       THEN \* DAQmxStopTask or DAQmxClearTask raises
            /\ op(-1, "Could not close clock")
            /\ UNCHANGED <<clock_daq_task, scanner_clock_daq_task,
                           clock_channel_new, hwClock>>
       ELSE
         /\ hwClock' = Pop(hwClock, my_task)
         /\ IF scanner
            THEN /\ scanner_clock_daq_task' = None
                 /\ UNCHANGED clock_daq_task
            ELSE /\ clock_daq_task' = None
                 /\ UNCHANGED scanner_clock_daq_task
         /\ IF RoleName(scanner) \in DOMAIN clock_channel_new
            THEN /\ clock_channel_new' = Pop(clock_channel_new, RoleName(scanner))
                 /\ op(0, "")
            ELSE \* dict.pop raises KeyError inside the try block
                 /\ UNCHANGED clock_channel_new
                 /\ op(-1, "Could not close clock")

(***************************************************************************)
(* Generalized clock registry.  A method that another method calls is an   *)
(* operator from the current registry to its result: return value, logged  *)
(* message, the three maps and the driver-side clock tasks after the call. *)
(***************************************************************************)
Registry(r, msg, tasks, chans, freqs, hwc) ==
    [ret |-> r, log |-> msg, tasks |-> tasks, chans |-> chans,
     freqs |-> freqs, hw |-> hwc]

\* set_up_clock_new, line 3717: the name already has a clock task
NameBound(name) == name \in DOMAIN clock_daq_task_new

\* set_up_clock_new, line 3745: the channel is bound to some name
ChannelBound(ch) == ch \in Values(clock_channel_new)

\* set_up_clock_new, lines 3735-3738: indices of the pool channels that no
\* name is bound to
FreePool == {i \in 1..Len(clock_channels) :
                 clock_channels[i] \notin Values(clock_channel_new)}

SetMin(S) == CHOOSE i \in S : \A j \in S : i <= j

\* set_up_clock_new, lines 3722-3726: the frequency recorded for the name
NewClockFrequency(cf) ==
    IF cf = NoneArg \/ cf[1] <= 0 THEN dummy_frequency ELSE cf[1]

\* set_up_clock_new(name, clock_frequency, clock_channel, idle, start)
SetUpClockNewResult(name, cf, cc, start, hw) ==
    LET freqs1 == Put(clock_frequency_new, name, NewClockFrequency(cf))
        my_clock_frequency == freqs1[name]
        my_clock_channel == IF cc # NoChannel THEN cc
                            ELSE IF FreePool # {} THEN clock_channels[SetMin(FreePool)]
                            ELSE NoChannel
        chans1 == Put(clock_channel_new, name, my_clock_channel)
        t == FreshTask
        hw1 == Put(hwClock, t, HwTask(my_clock_channel, my_clock_frequency))
    IN
    IF NameBound(name)
    THEN Registry(-1, "A clock task for this axis is already running",
                  clock_daq_task_new, clock_channel_new, clock_frequency_new, hwClock)
    ELSE IF my_clock_channel = NoChannel
    THEN Registry(-1, "There is no clock channel free",
                  clock_daq_task_new, clock_channel_new, freqs1, hwClock)
    ELSE IF ChannelBound(my_clock_channel)
    THEN Registry(-1, "This clock channel is already being used",
                  clock_daq_task_new, clock_channel_new, freqs1, hwClock)
    ELSE IF hw = "fail_config"
    THEN \* lines 3808-3810, before the handle is stored at line 3804
         Registry(-1, "Error while setting up clock",
                  clock_daq_task_new, chans1, freqs1, hwClock)
    ELSE IF hw = "fail_start" /\ start
    THEN Registry(-1, "Error while setting up clock",
                  Put(clock_daq_task_new, name, t), chans1, freqs1, hw1)
    ELSE Registry(0, "", Put(clock_daq_task_new, name, t), chans1, freqs1, hw1)

\* whether the call reaches daq.TaskHandle() / DAQmxCreateTask
SetUpClockNewCreates(name, cc) ==
    /\ ~NameBound(name)
    /\ (cc # NoChannel \/ FreePool # {})
    /\ ~ChannelBound(IF cc # NoChannel THEN cc ELSE clock_channels[SetMin(FreePool)])

set_up_clock_new(name, cf, cc, start, hw) ==
    LET res == SetUpClockNewResult(name, cf, cc, start, hw) IN
    /\ SetUpClockNewCreates(name, cc) /\ hw # "fail_config" => CanCreate
    /\ clock_daq_task_new' = res.tasks
    /\ closed' = (DOMAIN clock_daq_task_new) \ (DOMAIN res.tasks)
    /\ clock_channel_new' = res.chans
    /\ clock_frequency_new' = res.freqs
    /\ hwClock' = res.hw
    /\ Returns("set_up_clock_new", name, res.ret, res.log)
    /\ UNCHANGED <<clock_daq_task, scanner_clock_daq_task, clock_channel,
                   scanner_clock_channel, clock_frequency,
                   scanner_clock_frequency, finite_clock_frequency>>

\* add_clock_task_to_channel, lines 3838-3847: the loop over channel_names;
\* it stops at the first name that already has a task
RECURSIVE AddNames(_, _, _, _, _)
AddNames(names, reg, my_task, my_channel, my_frequency) ==
    IF names = <<>> THEN reg
    ELSE IF Head(names) \in DOMAIN reg.tasks
    THEN [reg EXCEPT !.ret = -1,
                     !.log = "The same channel already has an existing clock task"]
    ELSE AddNames(Tail(names),
                  [reg EXCEPT !.tasks = Put(reg.tasks, Head(names), my_task),
                              !.chans = Put(reg.chans, Head(names), my_channel),
                              !.freqs = Put(reg.freqs, Head(names), my_frequency)],
                  my_task, my_channel, my_frequency)

\* add_clock_task_to_channel(channel_name_orig, channel_names)
AddClockTaskResult(orig, names) ==
    LET reg == Registry(0, "", clock_daq_task_new, clock_channel_new,
                        clock_frequency_new, hwClock)
    IN
    IF orig \notin DOMAIN clock_daq_task_new
    THEN [reg EXCEPT !.ret = -1, !.log = "The given clock task pointer did not exist"]
    ELSE IF orig \notin DOMAIN clock_channel_new \/ orig \notin DOMAIN clock_frequency_new
    THEN [reg EXCEPT !.ret = Raised, !.log = "KeyError"]
    ELSE AddNames(names, reg, clock_daq_task_new[orig], clock_channel_new[orig],
                  clock_frequency_new[orig])

add_clock_task_to_channel(orig, names) ==
    LET res == AddClockTaskResult(orig, names) IN
    /\ clock_daq_task_new' = res.tasks
    /\ closed' = (DOMAIN clock_daq_task_new) \ (DOMAIN res.tasks)
    /\ clock_channel_new' = res.chans
    /\ clock_frequency_new' = res.freqs
    /\ Returns("add_clock_task_to_channel", orig, res.ret, res.log)
    /\ UNCHANGED <<clock_daq_task, scanner_clock_daq_task, clock_channel,
                   scanner_clock_channel, clock_frequency,
                   scanner_clock_frequency, finite_clock_frequency, hwClock>>

\* the names that share the task are not looked up
SharingNames_None(tasks, my_task) == {}

\* close_clock_new, lines 3867-3870: the other names that hold the task
SharingNames(tasks, my_task) == {k \in DOMAIN tasks : tasks[k] = my_task}

PopAll(m, keys) == [x \in (DOMAIN m) \ keys |-> m[x]]
PutAll(m, keys, v) == [x \in (DOMAIN m) \cup keys |-> IF x \in keys THEN v ELSE m[x]]

\* close_clock_new(name)
CloseClockNewResult(name, hw) ==
    LET my_task == clock_daq_task_new[name]
        my_channel == clock_channel_new[name]
        my_frequency == clock_frequency_new[name]
        tasks1 == Pop(clock_daq_task_new, name)
        chans1 == Pop(clock_channel_new, name)
        freqs1 == Pop(clock_frequency_new, name)
        key_list == SharingNames(tasks1, my_task)
        tasks2 == PopAll(tasks1, key_list)
        chans2 == PopAll(chans1, key_list)
        freqs2 == PopAll(freqs1, key_list)
    IN
    IF name \notin DOMAIN clock_daq_task_new
    THEN Registry(-1, "There was no task specified for the clock",
                  clock_daq_task_new, clock_channel_new, clock_frequency_new, hwClock)
    ELSE IF name \notin DOMAIN clock_channel_new
    THEN \* _clock_channel_new.pop(name) raises after the task entry is gone
         Registry(Raised, "KeyError", tasks1, clock_channel_new,
                  clock_frequency_new, hwClock)
    ELSE IF name \notin DOMAIN clock_frequency_new
    THEN Registry(Raised, "KeyError", tasks1, chans1, clock_frequency_new, hwClock)
    ELSE IF ~Live(my_task) \/ hw # "ok"
    THEN \* DAQmxStopTask or DAQmxClearTask raises: lines 3881-3889
         Registry(-1, "Could not close clock",
                  PutAll(Put(tasks2, name, my_task), key_list, my_task),
                  PutAll(chans2, key_list, my_channel),
                  PutAll(freqs2, key_list, my_frequency), hwClock)
    ELSE Registry(0, "", tasks2, chans2, freqs2, Pop(hwClock, my_task))

close_clock_new(name, hw) ==
    LET res == CloseClockNewResult(name, hw) IN
    /\ clock_daq_task_new' = res.tasks
    /\ closed' = (DOMAIN clock_daq_task_new) \ (DOMAIN res.tasks)
    /\ clock_channel_new' = res.chans
    /\ clock_frequency_new' = res.freqs
    /\ hwClock' = res.hw
    /\ Returns("close_clock_new", name, res.ret, res.log)
    /\ UNCHANGED <<clock_daq_task, scanner_clock_daq_task, clock_channel,
                   scanner_clock_channel, clock_frequency,
                   scanner_clock_frequency, finite_clock_frequency>>

(***************************************************************************)
(* set_up_finite_counter_clock(clock_frequency, clock_channel)             *)
(***************************************************************************)
set_up_finite_counter_clock(cf, cc, hw) ==
    LET channel == "Scanner_clock"
        op(r, msg) == Returns("set_up_finite_counter_clock", channel, r, msg)
        my_frequency == IF cf = NoneArg THEN <<finite_clock_frequency>> ELSE cf
        my_channel == IF cc = NoChannel THEN scanner_clock_channel ELSE cc
        res == SetUpClockNewResult(channel, my_frequency, my_channel, FALSE, hw)
    IN
    /\ finite_clock_frequency' = my_frequency[1]
    /\ UNCHANGED <<clock_daq_task, clock_channel, clock_frequency>>
    /\ IF OnlyOneClockPair(scanner_clock_channel, clock_channel)
       THEN /\ op(-1, "Only one clock channel is available")
            /\ closed' = {}
            /\ UNCHANGED <<scanner_clock_daq_task, scanner_clock_channel,
                           scanner_clock_frequency, clock_daq_task_new,
                           clock_channel_new, clock_frequency_new, hwClock>>
       ELSE IF scanner_clock_daq_task # None
       THEN /\ op(-1, "Another scanner clock is already running")
            /\ closed' = {}
            /\ UNCHANGED <<scanner_clock_daq_task, scanner_clock_channel,
                           scanner_clock_frequency, clock_daq_task_new,
                           clock_channel_new, clock_frequency_new, hwClock>>
       ELSE
         /\ SetUpClockNewCreates(channel, my_channel) /\ hw # "fail_config" => CanCreate
         /\ clock_daq_task_new' = res.tasks
         /\ closed' = {}
         /\ clock_channel_new' = res.chans
         /\ clock_frequency_new' = res.freqs
         /\ hwClock' = res.hw
         /\ op(res.ret, res.log)
         /\ IF res.ret = 0
            THEN /\ scanner_clock_daq_task' = res.tasks[channel]
                 /\ scanner_clock_frequency' = res.freqs[channel]
                 /\ scanner_clock_channel' = res.chans[channel]
            ELSE UNCHANGED <<scanner_clock_daq_task, scanner_clock_channel,
                             scanner_clock_frequency>>

(***************************************************************************)
(* close_finite_counter_clock()                                            *)
(***************************************************************************)
close_finite_counter_clock(hw) ==
    LET res == CloseClockNewResult("Scanner_clock", hw) IN
    /\ clock_daq_task_new' = res.tasks
    /\ closed' = (DOMAIN clock_daq_task_new) \ (DOMAIN res.tasks)
    /\ clock_channel_new' = res.chans
    /\ clock_frequency_new' = res.freqs
    /\ hwClock' = res.hw
    /\ IF res.ret = 0
       THEN \* the method ends without a return statement
            /\ scanner_clock_daq_task' = None
            /\ Returns("close_finite_counter_clock", "Scanner_clock", RetNone, res.log)
       ELSE /\ UNCHANGED scanner_clock_daq_task
            /\ Returns("close_finite_counter_clock", "Scanner_clock", res.ret, res.log)
    /\ UNCHANGED <<clock_daq_task, clock_channel, scanner_clock_channel,
                   clock_frequency, scanner_clock_frequency,
                   finite_clock_frequency>>

\* channel_names arguments offered to add_clock_task_to_channel
NameLists(N) == {<<n>> : n \in N} \cup {p \in N \X N : p[1] # p[2]}

\* (start, outcome) arguments offered to set_up_clock_new; DAQmxStartTask is
\* only reached with start = True
StartCases == {<<FALSE, "ok">>, <<TRUE, "ok">>, <<FALSE, "fail_config">>,
               <<TRUE, "fail_start">>}

SetUpClock(F) ==
    /\ UNCHANGED <<roleVars, scanVars, fctVars, guiVars, otherVars>>
    /\ \E cf \in F, cc \in Channels \cup {NoChannel}, scanner \in BOOLEAN,
          hw \in HwOutcome : set_up_clock(cf, cc, scanner, hw)

CloseClock ==
    /\ UNCHANGED <<roleVars, scanVars, fctVars, guiVars, otherVars>>
    /\ \E scanner \in BOOLEAN, hw \in CloseOutcome : close_clock(scanner, hw)

SetUpClockNew(F, N) ==
    /\ UNCHANGED <<roleVars, scanVars, fctVars, guiVars, otherVars>>
    /\ \E name \in N, cf \in F, cc \in Channels \cup {NoChannel}, sc \in StartCases :
           set_up_clock_new(name, cf, cc, sc[1], sc[2])

AddClockTaskToChannel(N) ==
    /\ UNCHANGED <<roleVars, scanVars, fctVars, guiVars, otherVars>>
    /\ \E orig \in N, names \in NameLists(N) : add_clock_task_to_channel(orig, names)

CloseClockNew(N) ==
    /\ UNCHANGED <<roleVars, scanVars, fctVars, guiVars, otherVars>>
    /\ \E name \in N, hw \in CloseOutcome : close_clock_new(name, hw)

SetUpFiniteCounterClock(F) ==
    /\ UNCHANGED <<roleVars, scanVars, fctVars, guiVars, otherVars>>
    /\ \E cf \in F, cc \in Channels \cup {NoChannel}, hw \in HwOutcome :
           set_up_finite_counter_clock(cf, cc, hw)

CloseFiniteCounterClock ==
    /\ UNCHANGED <<roleVars, scanVars, fctVars, guiVars, otherVars>>
    /\ \E hw \in CloseOutcome : close_finite_counter_clock(hw)

(***************************************************************************)
(* Specifications of the clock management                                  *)
(***************************************************************************)
\* the fixed-role clock pair alone
NextLegacyClock == SetUpClock(FreqArgs) \/ CloseClock

SpecLegacyClock == Init /\ [][NextLegacyClock]_vars

\* set_up_clock with the configured channel and the default frequency
SetUpClockCfg ==
    /\ UNCHANGED <<roleVars, scanVars, fctVars, guiVars, otherVars>>
    /\ \E scanner \in BOOLEAN, hw \in HwOutcome :
           set_up_clock(NoneArg, NoChannel, scanner, hw)

\* both clock generations, every clock at its default frequency and the
\* fixed-role pair on its configured channels: one shared channel, or two
NextClock ==
    \/ SetUpClockCfg
    \/ CloseClock
    \/ SetUpClockNew({NoneArg}, BridgeNames)
    \/ AddClockTaskToChannel(BridgeNames)
    \/ CloseClockNew(BridgeNames)
    \/ SetUpFiniteCounterClock({NoneArg})
    \/ CloseFiniteCounterClock

InitClock == Init /\ clock_channel = "Ctr0"

SpecClock == InitClock /\ [][NextClock]_vars

\* the generalized registry alone
NextRegistry ==
    \/ SetUpClockNew({NoneArg}, Names)
    \/ AddClockTaskToChannel(Names)
    \/ CloseClockNew(Names)

\* the registry does not read the channels of the fixed-role pair: one
\* configuration of them is enough
InitRegistry ==
    /\ Init
    /\ clock_channel = "Ctr0"
    /\ scanner_clock_channel = "Ctr1"

SpecRegistry == InitRegistry /\ [][NextRegistry]_vars

PulseNames == {"Scanner_clock"}

\* one clock of the fixed-role pair and one of the registry, at the default
\* and at a given frequency
SetUpClockFreq ==
    /\ UNCHANGED <<roleVars, scanVars, fctVars, guiVars, otherVars>>
    /\ \E cf \in FreqArgs, scanner \in BOOLEAN, hw \in HwOutcome :
           set_up_clock(cf, NoChannel, scanner, hw)

NextPulse ==
    \/ SetUpClockFreq
    \/ CloseClock
    \/ SetUpClockNew(FreqArgs, PulseNames)
    \/ CloseClockNew(PulseNames)

SpecPulse == InitRegistry /\ [][NextPulse]_vars

(***************************************************************************)
(* Acquisition roles: slow counter, scanner, ODMR, finite counter and      *)
(* gated counter.  The configuration has one counter channel, one scanner  *)
(* counter channel and one photon source, no counter_ai_channels and no    *)
(* scanner_ai_channels, and lock_in_active stays False.  The optional      *)
(* counter_channels, sources and scanner_ao_channels arguments are left at *)
(* None.  _my_scanner_clock_channel, _finite_counter_samples and           *)
(* _line_length are only handed on to DAQmx calls, whose outcome is an     *)
(* input of the action.                                                    *)
(***************************************************************************)
RECURSIVE SeqRange(_)
SeqRange(q) == IF q = <<>> THEN {} ELSE {Head(q)} \cup SeqRange(Tail(q))

RoleReferenced == (SeqRange(counter_daq_tasks)
                   \cup SeqRange(scanner_counter_daq_tasks)
                   \cup {gated_counter_daq_task, scanner_ao_task}) \ {None}
CanCreateRole == \E t \in RoleTaskIds : t \notin RoleReferenced \cup hwRole
\* daq.TaskHandle(): a handle distinct from every handle in use
FreshRoleTask == CHOOSE t \in RoleTaskIds : t \notin RoleReferenced \cup hwRole
                     /\ \A u \in RoleTaskIds :
                            u \notin RoleReferenced \cup hwRole => t <= u

NoClockMessage == "No clock running, call set_up_clock before starting the counter."
AnotherCounterMessage == "Another counter is already running, close this one first."

\* set_up_counter line 431, set_up_odmr line 1586, set_up_finite_counter
\* line 2347: counter tasks of the role are open
CounterRunning(tasks) == Len(tasks) > 0

\* set_up_odmr, set_up_finite_counter: the scanner counter list is in use
ScannerCounterRunning(tasks) == Len(tasks) > 0

\* set_up_gated_counter lines 2093-2096
GatedCounterRunning == gated_counter_daq_task # None

\* close_counter, lines 688-734: every task of the list is stopped and
\* cleared inside its own try, and the list is emptied whatever happened
CloseCounterReturn(tasks, hw) ==
    IF tasks = <<>> \/ (hw = "ok" /\ SeqRange(tasks) \subseteq hwRole) THEN 0 ELSE -1

set_up_counter(cc, hw) ==
    LET op(r, msg) == Returns("set_up_counter", "", r, msg)
        t == FreshRoleTask
    IN
    /\ closed' = {}
    /\ UNCHANGED <<gated_counter_daq_task, scanner_counter_daq_tasks, scanner_ao_task>>
    /\ IF clock_daq_task = None /\ cc = NoChannel
       THEN op(-1, NoClockMessage) /\ UNCHANGED <<counter_daq_tasks, hwRole>>
       ELSE IF CounterRunning(counter_daq_tasks)
       THEN op(-1, AnotherCounterMessage) /\ UNCHANGED <<counter_daq_tasks, hwRole>>
       \* _clock_frequency does not exist before the first set_up_clock
       ELSE IF hw = "fail_config" \/ clock_frequency = 0
       THEN /\ op(-1, "Error while setting up counting task.")
            /\ UNCHANGED <<counter_daq_tasks, hwRole>>
       \* DAQmxStartTask raised: close_counter() empties the list again
       ELSE IF hw = "fail_start"
       THEN /\ CanCreateRole
            /\ op(-1, "Error while starting Counter")
            /\ UNCHANGED <<counter_daq_tasks, hwRole>>
       ELSE /\ CanCreateRole
            /\ counter_daq_tasks' = Append(counter_daq_tasks, t)
            /\ hwRole' = hwRole \cup {t}
            /\ op(0, "")

close_counter(scanner, hw) ==
    LET tasks == IF scanner THEN scanner_counter_daq_tasks ELSE counter_daq_tasks
        error == CloseCounterReturn(tasks, hw)
    IN
    /\ closed' = {}
    /\ IF scanner
       THEN scanner_counter_daq_tasks' = <<>> /\ UNCHANGED counter_daq_tasks
       ELSE counter_daq_tasks' = <<>> /\ UNCHANGED scanner_counter_daq_tasks
    /\ hwRole' = hwRole \ SeqRange(tasks)
    /\ UNCHANGED <<gated_counter_daq_task, scanner_ao_task>>
    /\ Returns("close_counter", RoleName(scanner), error,
               IF error = 0 THEN ""
               ELSE IF scanner THEN "Could not close scanner counter."
               ELSE "Could not close counter.")

\* the number of configured scanner counter channels and counter channels
scanner_counter_channels == 1
counter_channels == 1

\* Counter samples are np.uint32 and count rates np.float64, both beyond the
\* integers of the model checker: a number is written as four digits of base
\* 2^16, least significant digit first.
Base == 65536
Digits(x) == <<x, 0, 0, 0>>
Carry(d) ==
    LET d2 == d[2] + d[1] \div Base
        d3 == d[3] + d2 \div Base
        d4 == d[4] + d3 \div Base
    IN <<d[1] % Base, d2 % Base, d3 % Base, d4 % Base>>
Plus(a, b) == Carry([i \in 1..4 |-> a[i] + b[i]])
Times(a, f) == Carry([i \in 1..4 |-> a[i] * f])
\* the value kept by a uint32 element: the two low digits
AsUint32(a) == <<a[1], a[2], 0, 0>>
\* the largest uint32 value
MaxUint32 == <<Base - 1, Base - 1, 0, 0>>

\* lines 672-681 and 1494-1506: the samples of the high and of the low time of
\* each clock period are added in place in the uint32 array of the raw reads
\* and scaled to counts per second
RealData(raw, n) == [k \in 1..n |-> AsUint32(Plus(raw[2 * k - 1], raw[2 * k]))]
CountsPerSecond(raw, n, frequency) ==
    [k \in 1..n |-> Times(RealData(raw, n)[k], frequency)]

\* the voltage DAQmxReadAnalogF64 delivers for every pixel
AnalogRead == Digits(0)
\* DAQmxReadCounterU32 results offered to get_counter and scan_line for n raw
\* samples
RawReads(n) == {[i \in 1..n |-> Digits(i)],
                [i \in 1..n |-> IF i = 1 THEN MaxUint32 ELSE Digits(1)]}
\* samples arguments offered to get_counter: the default None, one and two
SamplesArgs == {NoneArg, <<1>>, <<2>>}
\* np.ones((channels, samples)) * -1
ErrorArray(channels, samples) == [c \in 1..channels |-> [k \in 1..samples |-> -1]]
\* the value get_counter returned is in all_data
ArrayReturned == 0

\* get_counter, lines 598-686, for the default counter_ai_channels = [].
\* With samples = None the error array of line 612 cannot be built
\* (np.ones((n, None)) is a TypeError) and line 621 reads self._samples_number,
\* an attribute no line of the class assigns.
get_counter(samples, hw, raw) ==
    LET op(r, msg) == Returns("get_counter", "", r, msg)
        n == IF samples = NoneArg THEN 0 ELSE samples[1]
    IN
    /\ closed' = {}
    /\ IF Len(counter_daq_tasks) < 1
       THEN /\ count_data' = <<>>
            /\ IF samples = NoneArg
               THEN /\ all_data' = <<>>
                    /\ op(Raised, "No counter running, call set_up_counter before reading it.")
               ELSE /\ all_data' = ErrorArray(counter_channels, n)
                    /\ op(ArrayReturned,
                          "No counter running, call set_up_counter before reading it.")
       ELSE IF samples = NoneArg
       THEN /\ count_data' = <<>>
            /\ all_data' = <<>>
            /\ op(Raised, "")
       ELSE IF hw # "ok" \/ ~(SeqRange(counter_daq_tasks) \subseteq hwRole)
       THEN /\ count_data' = <<>>
            /\ all_data' = ErrorArray(counter_channels, n)
            /\ op(ArrayReturned, "Getting samples from counter failed.")
       ELSE /\ count_data' = raw
            /\ all_data' = [c \in 1..counter_channels |->
                               CountsPerSecond(raw, n, clock_frequency)]
            /\ op(ArrayReturned, "")

\* the handle of the analogue input task ('ScanAnalogIn', 'ODMRAnalog'), kept
\* apart from the handles of the counter tasks
ScanAnalogIn == MaxRoleTasks + 1

\* DAQmxStopTask and DAQmxClearTask on the analogue input task, lines
\* 1527-1536 and 1994-2004: they raise on None and on a cleared task
CloseAnalogReturn(an) ==
    IF scanner_ai_channels = 0 THEN 0
    ELSE IF an = "ok" /\ scanner_analog_daq_task \in hwRole THEN 0 ELSE -1

set_up_scanner(cc, hw) ==
    LET op(r, msg) == Returns("set_up_scanner", "", r, msg)
        t == FreshRoleTask
    IN
    /\ closed' = {}
    /\ UNCHANGED <<gated_counter_daq_task, counter_daq_tasks, scanner_ao_task>>
    \* line 1042: the first call of the try block
    /\ ao_timing_type' =
           IF ~(scanner_clock_daq_task = None /\ cc = NoChannel)
              /\ scanner_ao_task \in hwRole
           THEN "OnDemand" ELSE ao_timing_type
    /\ IF scanner_clock_daq_task = None /\ cc = NoChannel
       THEN /\ op(-1, NoClockMessage)
            /\ UNCHANGED <<scanner_counter_daq_tasks, hwRole, scanner_analog_daq_task>>
       \* DAQmxSetSampTimingType on the analogue output, then the counter task
       ELSE IF hw = "fail_config" \/ scanner_clock_frequency = 0
               \/ scanner_ao_task \notin hwRole
       THEN /\ op(-1, "Error while setting up scanner.")
            /\ UNCHANGED <<scanner_counter_daq_tasks, hwRole, scanner_analog_daq_task>>
       ELSE /\ CanCreateRole
            /\ scanner_counter_daq_tasks' = Append(scanner_counter_daq_tasks, t)
            \* the analogue input task is created after the counter task was
            \* appended; a failure there leaves the counter task in the list
            /\ IF scanner_ai_channels = 0
               THEN /\ hw # "fail_analog"
                    /\ hwRole' = hwRole \cup {t}
                    /\ UNCHANGED scanner_analog_daq_task
                    /\ op(0, "")
               ELSE IF hw = "fail_analog"
               THEN /\ hwRole' = hwRole \cup {t}
                    /\ UNCHANGED scanner_analog_daq_task
                    /\ op(-1, "Error while setting up scanner.")
               ELSE /\ hwRole' = hwRole \cup {t, ScanAnalogIn}
                    /\ scanner_analog_daq_task' = ScanAnalogIn
                    /\ op(0, "")

\* _stop_analog_output, lines 949-968
StopAnalogOutputReturn(ao) ==
    IF scanner_ao_task = None THEN -1
    ELSE IF ao = "ok" /\ scanner_ao_task \in hwRole THEN 0 ELSE -1

\* _stop_analog_output, lines 963-967: the timing type is set back in a try
\* block of its own, whether or not DAQmxStopTask raised
StopAnalogOutputTiming ==
    IF scanner_ao_task \in hwRole THEN "OnDemand" ELSE ao_timing_type

close_scanner(ao, an, hw) ==
    LET a == StopAnalogOutputReturn(ao)
        b == CloseAnalogReturn(an)
        c == CloseCounterReturn(scanner_counter_daq_tasks, hw)
        cleared == IF scanner_ai_channels > 0 /\ b = 0
                   THEN {scanner_analog_daq_task} ELSE {}
    IN
    /\ closed' = {}
    /\ scanner_counter_daq_tasks' = <<>>
    /\ ao_timing_type' = StopAnalogOutputTiming
    /\ hwRole' = (hwRole \ SeqRange(scanner_counter_daq_tasks)) \ cleared
    /\ scanner_analog_daq_task' = IF cleared # {} THEN None
                                  ELSE scanner_analog_daq_task
    /\ UNCHANGED <<gated_counter_daq_task, counter_daq_tasks, scanner_ao_task>>
    /\ Returns("close_scanner", "", IF a < 0 \/ b < 0 \/ c < 0 THEN -1 ELSE 0,
               IF c < 0 THEN "Could not close scanner counter."
               ELSE IF b < 0 THEN "Could not close analog."
               ELSE IF a < 0 /\ scanner_ao_task # None THEN "Error stopping analog output."
               ELSE "")

set_up_odmr(cc, hw) ==
    LET op(r, msg) == Returns("set_up_odmr", "", r, msg)
        t == FreshRoleTask
    IN
    /\ closed' = {}
    /\ UNCHANGED <<gated_counter_daq_task, counter_daq_tasks, scanner_ao_task>>
    /\ IF scanner_clock_daq_task = None /\ cc = NoChannel
       THEN /\ op(-1, NoClockMessage)
            /\ UNCHANGED <<scanner_counter_daq_tasks, hwRole, scanner_analog_daq_task>>
       ELSE IF ScannerCounterRunning(scanner_counter_daq_tasks)
       THEN /\ op(-1, AnotherCounterMessage)
            /\ UNCHANGED <<scanner_counter_daq_tasks, hwRole, scanner_analog_daq_task>>
       ELSE IF scanner_ai_channels > 0 /\ scanner_analog_daq_task # None
       THEN /\ op(-1, "Another analog is already running, close this one first.")
            /\ UNCHANGED <<scanner_counter_daq_tasks, hwRole, scanner_analog_daq_task>>
       \* the try block starts and stops the scanner clock task
       ELSE IF hw = "fail_config" \/ scanner_clock_frequency = 0
               \/ ~Live(scanner_clock_daq_task)
       THEN /\ op(-1, "Error while setting up ODMR scan.")
            /\ UNCHANGED <<scanner_counter_daq_tasks, hwRole, scanner_analog_daq_task>>
       ELSE /\ CanCreateRole
            /\ scanner_counter_daq_tasks' = Append(scanner_counter_daq_tasks, t)
            /\ IF scanner_ai_channels > 0
               THEN /\ hwRole' = hwRole \cup {t, ScanAnalogIn}
                    /\ scanner_analog_daq_task' = ScanAnalogIn
               ELSE /\ hwRole' = hwRole \cup {t}
                    /\ UNCHANGED scanner_analog_daq_task
            /\ op(0, "")

\* disc: outcome of DAQmxDisconnectTerms
close_odmr(disc, an, hw) ==
    LET b == CloseAnalogReturn(an)
        c == CloseCounterReturn(scanner_counter_daq_tasks, hw)
        cleared == IF scanner_ai_channels > 0 /\ b = 0
                   THEN {scanner_analog_daq_task} ELSE {}
    IN
    /\ closed' = {}
    /\ scanner_counter_daq_tasks' = <<>>
    /\ hwRole' = (hwRole \ SeqRange(scanner_counter_daq_tasks)) \ cleared
    /\ scanner_analog_daq_task' = IF cleared # {} THEN None
                                  ELSE scanner_analog_daq_task
    /\ UNCHANGED <<gated_counter_daq_task, counter_daq_tasks, scanner_ao_task>>
    /\ Returns("close_odmr", "", IF b < 0 \/ c < 0 \/ disc # "ok" THEN -1 ELSE 0,
               IF c < 0 THEN "Could not close scanner counter."
               ELSE IF b < 0 THEN "Could not close analog."
               ELSE IF disc # "ok" THEN "Error while disconnecting ODMR clock channel."
               ELSE "")

set_up_finite_counter(cc, hw) ==
    LET op(r, msg) == Returns("set_up_finite_counter", "", r, msg)
        t == FreshRoleTask
    IN
    /\ closed' = {}
    /\ UNCHANGED <<gated_counter_daq_task, counter_daq_tasks, scanner_ao_task>>
    /\ IF scanner_clock_daq_task = None /\ cc = NoChannel
       THEN op(-1, NoClockMessage) /\ UNCHANGED <<scanner_counter_daq_tasks, hwRole>>
       ELSE IF ScannerCounterRunning(scanner_counter_daq_tasks)
       THEN op(-1, AnotherCounterMessage)
            /\ UNCHANGED <<scanner_counter_daq_tasks, hwRole>>
       ELSE IF hw = "fail_config"
       THEN /\ op(-1, "Error while setting up finite counting.")
            /\ UNCHANGED <<scanner_counter_daq_tasks, hwRole>>
       ELSE /\ CanCreateRole
            /\ scanner_counter_daq_tasks' = Append(scanner_counter_daq_tasks, t)
            /\ hwRole' = hwRole \cup {t}
            /\ op(0, "")

close_finite_counter(hw) ==
    /\ closed' = {}
    /\ scanner_counter_daq_tasks' = <<>>
    /\ hwRole' = hwRole \ SeqRange(scanner_counter_daq_tasks)
    /\ UNCHANGED <<gated_counter_daq_task, counter_daq_tasks, scanner_ao_task>>
    /\ LET c == CloseCounterReturn(scanner_counter_daq_tasks, hw)
       IN Returns("close_finite_counter", "", c,
                  IF c < 0 THEN "Could not close scanner counter." ELSE "")

\* The handle is stored before DAQmxCreateTask.  The channel is then created
\* from self._counter_channel, an attribute the class never assigns: the try
\* block always ends in the except branch.  hw = "ok": the task was created
\* before that.
set_up_gated_counter(hw) ==
    LET op(r, msg) == Returns("set_up_gated_counter", "", r, msg)
        t == FreshRoleTask
    IN
    /\ closed' = {}
    /\ UNCHANGED <<counter_daq_tasks, scanner_counter_daq_tasks, scanner_ao_task>>
    /\ IF GatedCounterRunning
       THEN /\ op(-1, "Another gated counter is already running, close this one first.")
            /\ UNCHANGED <<gated_counter_daq_task, hwRole>>
       ELSE /\ CanCreateRole
            /\ gated_counter_daq_task' = t
            /\ hwRole' = IF hw = "ok" THEN hwRole \cup {t} ELSE hwRole
            /\ op(-1, "Error while setting up gated counting.")

\* outcomes of close_gated_counter: both calls succeed, only DAQmxStopTask
\* raises, DAQmxClearTask raises
GatedCloseOutcome == {"ok", "fail_stop", "fail"}

close_gated_counter(hw) ==
    LET cleared == hw # "fail" /\ gated_counter_daq_task \in hwRole
        stopped == hw = "ok" /\ gated_counter_daq_task \in hwRole
    IN
    /\ closed' = {}
    /\ UNCHANGED <<counter_daq_tasks, scanner_counter_daq_tasks, scanner_ao_task>>
    /\ IF cleared
       THEN /\ gated_counter_daq_task' = None
            /\ hwRole' = hwRole \ {gated_counter_daq_task}
       ELSE UNCHANGED <<gated_counter_daq_task, hwRole>>
    /\ Returns("close_gated_counter", "", IF stopped /\ cleared THEN 0 ELSE -1,
               IF ~cleared THEN "Error while clearing gated counter."
               ELSE IF ~stopped THEN "Error while closing gated counter."
               ELSE "")

\* call arguments and DAQmx outcomes offered to the role commands
RoleHwOutcome == {"ok", "fail_config"}

SetUpCounter ==
    /\ UNCHANGED <<clockVars, hwClock, scanVars, fctVars, guiVars, otherVars>>
    /\ \E cc \in {NoChannel, "Ctr0"}, hw \in HwOutcome : set_up_counter(cc, hw)

CloseCounter ==
    /\ UNCHANGED <<clockVars, hwClock, scanVars, fctVars, guiVars, otherVars>>
    /\ \E scanner \in BOOLEAN, hw \in CloseOutcome : close_counter(scanner, hw)

\* set_up_scanner's DAQmx calls: all succeed, one raises before the counter
\* task is appended, the analogue input task cannot be created
ScannerHwOutcome == RoleHwOutcome \cup {"fail_analog"}

GetCounter ==
    /\ UNCHANGED <<clockVars, hwClock, roleVars, fctVars, guiVars, otherVars>>
    /\ UNCHANGED <<module_state, current_position, ao_writes, scanner_ai_channels,
                   scanner_analog_daq_task, ao_timing_type, pixel_clock_connected>>
    /\ \E samples \in SamplesArgs, hw \in CloseOutcome :
           \E raw \in (IF samples = NoneArg THEN {<<>>} ELSE RawReads(2 * samples[1])) :
               get_counter(samples, hw, raw)

SetUpScanner ==
    /\ UNCHANGED <<clockVars, hwClock, fctVars, guiVars, otherVars>>
    /\ UNCHANGED <<module_state, current_position, ao_writes, scanner_ai_channels, all_data,
                   count_data, pixel_clock_connected>>
    /\ \E cc \in {NoChannel, "Ctr1"}, hw \in ScannerHwOutcome : set_up_scanner(cc, hw)

CloseScanner ==
    /\ UNCHANGED <<clockVars, hwClock, fctVars, guiVars, otherVars>>
    /\ UNCHANGED <<module_state, current_position, ao_writes, scanner_ai_channels, all_data,
                   count_data, pixel_clock_connected>>
    /\ \E ao \in CloseOutcome, an \in CloseOutcome, hw \in CloseOutcome :
           close_scanner(ao, an, hw)

SetUpOdmr ==
    /\ UNCHANGED <<clockVars, hwClock, fctVars, guiVars, otherVars>>
    /\ UNCHANGED <<module_state, current_position, ao_writes, scanner_ai_channels, all_data,
                   count_data, ao_timing_type, pixel_clock_connected>>
    /\ \E cc \in {NoChannel, "Ctr1"}, hw \in RoleHwOutcome : set_up_odmr(cc, hw)

CloseOdmr ==
    /\ UNCHANGED <<clockVars, hwClock, fctVars, guiVars, otherVars>>
    /\ UNCHANGED <<module_state, current_position, ao_writes, scanner_ai_channels, all_data,
                   count_data, ao_timing_type, pixel_clock_connected>>
    /\ \E disc \in CloseOutcome, an \in CloseOutcome, hw \in CloseOutcome :
           close_odmr(disc, an, hw)

SetUpFiniteCounter ==
    /\ UNCHANGED <<clockVars, hwClock, scanVars, fctVars, guiVars, otherVars>>
    /\ \E cc \in {NoChannel, "Ctr1"}, hw \in RoleHwOutcome :
           set_up_finite_counter(cc, hw)

CloseFiniteCounter ==
    /\ UNCHANGED <<clockVars, hwClock, scanVars, fctVars, guiVars, otherVars>>
    /\ \E hw \in CloseOutcome : close_finite_counter(hw)

SetUpGatedCounter ==
    /\ UNCHANGED <<clockVars, hwClock, scanVars, fctVars, guiVars, otherVars>>
    /\ \E hw \in CloseOutcome : set_up_gated_counter(hw)

CloseGatedCounter ==
    /\ UNCHANGED <<clockVars, hwClock, scanVars, fctVars, guiVars, otherVars>>
    /\ \E hw \in GatedCloseOutcome : close_gated_counter(hw)

\* the acquisition roles on their two fixed-role clocks
NextRoles ==
    \/ SetUpClockCfg
    \/ CloseClock
    \/ SetUpCounter
    \/ CloseCounter
    \/ SetUpScanner
    \/ CloseScanner
    \/ SetUpOdmr
    \/ CloseOdmr
    \/ SetUpFiniteCounter
    \/ CloseFiniteCounter
    \/ SetUpGatedCounter
    \/ CloseGatedCounter

SpecRoles == InitRegistry /\ [][NextRoles]_vars

\* the slow counter and its clock
NextCounter ==
    \/ SetUpClock(FreqArgs)
    \/ CloseClock
    \/ SetUpCounter
    \/ CloseCounter
    \/ GetCounter

SpecCounter == InitRegistry /\ [][NextCounter]_vars

(***************************************************************************)
(* C3: for every acquisition role (slow counter, scanner, ODMR, finite     *)
(* counter, gated counter), the role's set_up_* call made while a task of  *)
(* that role is open returns -1 and leaves the task handles as they were.  *)
(***************************************************************************)
RoleTaskOpen(op) ==
    CASE op = "set_up_counter" -> Len(counter_daq_tasks) > 0
      [] op \in {"set_up_scanner", "set_up_odmr", "set_up_finite_counter"}
            -> Len(scanner_counter_daq_tasks) > 0
      [] op = "set_up_gated_counter" -> gated_counter_daq_task # None
      [] OTHER -> FALSE

C3_Step ==
    RoleTaskOpen(call'.op)
    => /\ ret' = -1
       /\ UNCHANGED <<counter_daq_tasks, scanner_counter_daq_tasks,
                      gated_counter_daq_task>>

C3_SetUpWhileOpenRejected == [][C3_Step]_vars

(***************************************************************************)
(* Confocal scanner: scanner_set_position and scan_line on two axes.  The  *)
(* z and a arguments are left at None.                                     *)
(***************************************************************************)
\* ConfigOption scanner_position_ranges and scanner_voltage_ranges, per axis
scanner_position_ranges == <<<<0, 2>>, <<0, 2>>>>
scanner_voltage_ranges == <<<<-2, 2>>, <<-2, 2>>>>
\* x and y arguments offered to scanner_set_position: None, two positions in
\* range and one beyond the range
PosArgs == {NoneArg, <<1>>, <<2>>, <<3>>}
\* line_path arguments offered to scan_line: per axis the positions of the
\* line's pixels
LinePaths == {<<<<0, 1, 2>>, <<1, 1, 1>>>>, <<<<2, 1>>, <<2, 0>>>>}
\* line_path arguments of scan_line: the default None, which is not of an
\* array type, and the line paths
LinePathArgs == {NoneArg} \cup LinePaths
\* outcome of the DAQmx calls of scan_line: all succeed, one raises before
\* the analogue output is written, one raises after it and before the
\* pixel clock is connected, one raises between the connection and
\* _stop_analog_output
ScanOutcome == {"ok", "fail_before_write", "fail_after_write", "fail_after_connect"}
\* scan_line's return value: the counts matrix, the error sentinel array
\* np.array([[-1.]]); the number -1 of line 1375 is -1
LineData == 0
LineError == -5

\* scanner_set_position, lines 1137, 1143: the range check of one axis
InPositionRange(i, p) ==
    scanner_position_ranges[i][1] <= p /\ p <= scanner_position_ranges[i][2]

\* _scanner_position_to_volt, lines 1224-1230, for one axis.  The ranges are
\* chosen so that the quotient is exact.
PositionToVolt(i, p) ==
    ((scanner_voltage_ranges[i][2] - scanner_voltage_ranges[i][1])
       \div (scanner_position_ranges[i][2] - scanner_position_ranges[i][1]))
    * (p - scanner_position_ranges[i][1]) + scanner_voltage_ranges[i][1]

\* _scanner_position_to_volt, lines 1233-1238: a voltage beyond the range
VoltsInRange(positions) ==
    \A i \in 1..NAxes :
        /\ scanner_voltage_ranges[i][1] <= PositionToVolt(i, positions[i])
        /\ PositionToVolt(i, positions[i]) <= scanner_voltage_ranges[i][2]

\* module_state.lock() and unlock() of the module base class
lock ==
    /\ module_state = "idle"
    /\ module_state' = "locked"
    /\ UNCHANGED <<current_position, ao_writes, closed, scanner_ai_channels,
                   scanner_analog_daq_task, all_data, count_data, ao_timing_type,
                   pixel_clock_connected>>
    /\ Returns("lock", "", 0, "")

unlock ==
    /\ module_state = "locked"
    /\ module_state' = "idle"
    /\ UNCHANGED <<current_position, ao_writes, closed, scanner_ai_channels,
                   scanner_analog_daq_task, all_data, count_data, ao_timing_type,
                   pixel_clock_connected>>
    /\ Returns("unlock", "", 0, "")

scanner_set_position(x, y, hw) ==
    LET op(r, msg) == Returns("scanner_set_position", "", r, msg)
        xbad == x # NoneArg /\ ~InPositionRange(1, x[1])
        ybad == y # NoneArg /\ ~InPositionRange(2, y[1])
        px == IF x # NoneArg THEN [current_position EXCEPT ![1] = x[1]]
              ELSE current_position
        pxy == IF y # NoneArg THEN [px EXCEPT ![2] = y[1]] ELSE px
    IN
    /\ UNCHANGED <<module_state, closed, scanner_ai_channels, scanner_analog_daq_task,
                   all_data, count_data, ao_timing_type, pixel_clock_connected>>
    /\ IF module_state = "locked"
       THEN /\ op(-1, "Another scan_line is already running, close this one first.")
            /\ ao_writes' = 0
            /\ UNCHANGED current_position
       ELSE IF xbad
       THEN /\ op(-1, "You want to set x out of range")
            /\ ao_writes' = 0
            /\ UNCHANGED current_position
       ELSE IF ybad
       THEN /\ op(-1, "You want to set y out of range")
            /\ ao_writes' = 0
            /\ current_position' = px
       ELSE /\ current_position' = pxy
            \* _write_scanner_ao raises: bare except, no message
            /\ IF hw = "ok" /\ scanner_ao_task \in hwRole /\ VoltsInRange(pxy)
               THEN ao_writes' = 1 /\ op(0, "")
               ELSE ao_writes' = 0 /\ op(-1, "")

\* the last pixel of the line: line_path[:, -1]
LineEnd(line_path) == [i \in 1..NAxes |-> line_path[i][Len(line_path[i])]]

\* all_data.transpose(): per pixel the count rate and the analogue inputs
ScanData(raw, n) ==
    [k \in 1..n |-> <<CountsPerSecond(raw, n, scanner_clock_frequency)[k]>>
                    \o [a \in 1..scanner_ai_channels |-> AnalogRead]]

\* ConfigOption pixel_clock_channel, line 119, of a setup that has one
pixel_clock_channel == "PFI6"

scan_line(line_path, pixel_clock, hw, raw) ==
    LET op(r, msg) == Returns("scan_line", "", r, msg)
        \* the try block stops and starts the scanner clock and counter tasks
        tasks_ok == /\ scanner_ao_task \in hwRole
                    /\ Live(scanner_clock_daq_task)
                    /\ SeqRange(scanner_counter_daq_tasks) \subseteq hwRole
                    /\ scanner_ai_channels > 0 => scanner_analog_daq_task \in hwRole
                    \* _scan_data has one row per configured channel
                    /\ Len(scanner_counter_daq_tasks)
                           <= scanner_counter_channels + scanner_ai_channels
        \* the try block is entered
        tried == /\ Len(scanner_counter_daq_tasks) >= 1
                 /\ ~(scanner_ai_channels > 0 /\ scanner_analog_daq_task = None)
                 /\ line_path # NoneArg
        \* lines 1401-1405 are reached
        connects == /\ tried /\ tasks_ok
                    /\ hw \in {"ok", "fail_after_connect"}
                    /\ pixel_clock /\ pixel_clock_channel # NoChannel
    IN
    /\ UNCHANGED <<module_state, closed, scanner_ai_channels, scanner_analog_daq_task>>
    \* line 1384 sets the sample clock timing first; line 1485 is reached
    \* when nothing raised before it
    /\ ao_timing_type' =
           IF ~tried \/ scanner_ao_task \notin hwRole THEN ao_timing_type
           ELSE IF hw = "ok" /\ tasks_ok THEN StopAnalogOutputTiming
           ELSE "SampClk"
    \* lines 1487-1490 are reached when nothing raised before them
    /\ pixel_clock_connected' =
           IF connects THEN hw # "ok" ELSE pixel_clock_connected
    /\ IF line_path # NoneArg /\ hw = "ok" /\ tasks_ok
          /\ Len(scanner_counter_daq_tasks) >= 1
          /\ ~(scanner_ai_channels > 0 /\ scanner_analog_daq_task = None)
       THEN all_data' = ScanData(raw, Len(line_path[1])) /\ count_data' = raw
       ELSE all_data' = <<>> /\ count_data' = <<>>
    /\ IF Len(scanner_counter_daq_tasks) < 1
       THEN /\ op(LineError, "Configured counter is not running, cannot scan a line.")
            /\ ao_writes' = 0
            /\ UNCHANGED current_position
       ELSE IF scanner_ai_channels > 0 /\ scanner_analog_daq_task = None
       THEN /\ op(-1, "Configured analog input is not running, cannot scan a line.")
            /\ ao_writes' = 0
            /\ UNCHANGED current_position
       ELSE IF line_path = NoneArg
       THEN /\ op(LineError, "Given line_path list is not array type.")
            /\ ao_writes' = 0
            /\ UNCHANGED current_position
       ELSE IF hw = "fail_before_write" \/ scanner_ao_task \notin hwRole
       THEN /\ op(LineError, "Error while scanning line.")
            /\ ao_writes' = 0
            /\ UNCHANGED current_position
       ELSE IF hw \in {"fail_after_write", "fail_after_connect"} \/ ~tasks_ok
       THEN /\ op(LineError, "Error while scanning line.")
            /\ ao_writes' = 1
            /\ UNCHANGED current_position
       ELSE /\ op(LineData, "")
            /\ ao_writes' = 1
            /\ current_position' = LineEnd(line_path)

Lock ==
    /\ UNCHANGED <<clockVars, hwClock, roleVars, fctVars, guiVars, otherVars>>
    /\ lock

Unlock ==
    /\ UNCHANGED <<clockVars, hwClock, roleVars, fctVars, guiVars, otherVars>>
    /\ unlock

ScannerSetPosition ==
    /\ UNCHANGED <<clockVars, hwClock, roleVars, fctVars, guiVars, otherVars>>
    /\ \E x \in PosArgs, y \in PosArgs, hw \in CloseOutcome :
           scanner_set_position(x, y, hw)

ScanLine ==
    /\ UNCHANGED <<clockVars, hwClock, roleVars, fctVars, guiVars, otherVars>>
    /\ \E line_path \in LinePathArgs, pixel_clock \in BOOLEAN, hw \in ScanOutcome :
           \E raw \in (IF line_path = NoneArg THEN {<<>>}
                       ELSE RawReads(2 * Len(line_path[1]))) :
               scan_line(line_path, pixel_clock, hw, raw)

\* set_up_scanner_clock() and close_scanner_clock(), lines 970-986, 1542-1550
SetUpScannerClock ==
    /\ UNCHANGED <<roleVars, scanVars, fctVars, guiVars, otherVars>>
    /\ \E hw \in HwOutcome : set_up_clock(NoneArg, NoChannel, TRUE, hw)

CloseScannerClock ==
    /\ UNCHANGED <<roleVars, scanVars, fctVars, guiVars, otherVars>>
    /\ \E hw \in CloseOutcome : close_clock(TRUE, hw)

\* the finite-counter clock and the close paths that reach its task
NextFiniteClock ==
    \/ SetUpFiniteCounterClock({NoneArg})
    \/ CloseFiniteCounterClock
    \/ CloseClockNew(BridgeNames)
    \/ CloseScannerClock

SpecFiniteClock == InitRegistry /\ [][NextFiniteClock]_vars

\* the scanner role under the module lock
NextScan ==
    \/ SetUpScannerClock
    \/ CloseScannerClock
    \/ SetUpScanner
    \/ CloseScanner
    \/ Lock
    \/ Unlock
    \/ ScannerSetPosition
    \/ ScanLine

\* the scanner with and without a configured analogue input channel
InitScan ==
    /\ InitDriver
    /\ clock_channel = "Ctr0"
    /\ scanner_clock_channel = "Ctr1"
    /\ scanner_ai_channels \in {0, 1}

SpecScan == InitScan /\ [][NextScan]_vars

(***************************************************************************)
(* C4: while the module state is 'locked', every scanner_set_position call *)
(* and every scan_line call is rejected with an error return, writes       *)
(* nothing to the scanner analogue output and leaves the current position  *)
(* unchanged.                                                              *)
(***************************************************************************)
C4_Step ==
    (module_state = "locked" /\ call'.op \in {"scanner_set_position", "scan_line"})
    => /\ ret' \in {-1, LineError}
       /\ ao_writes' = 0
       /\ UNCHANGED current_position

C4_LockedRejectsScannerCommands == [][C4_Step]_vars

(***************************************************************************)
(* C6: scanner_set_position with at least one supplied axis value outside  *)
(* its position range returns -1, writes nothing to the analogue output    *)
(* and leaves every element of the current position unchanged, the axes    *)
(* whose values were in range included.                                    *)
(***************************************************************************)
C6_Step ==
    (/\ call'.op = "scanner_set_position"
     /\ module_state = "idle"
     /\ log' \in {"You want to set x out of range", "You want to set y out of range"})
    => /\ ret' = -1
       /\ ao_writes' = 0
       /\ UNCHANGED current_position

C6_OutOfRangeKeepsPosition == [][C6_Step]_vars

(***************************************************************************)
(* FastComtec counting card.  The card is the environment: every           *)
(* GetStatusData, GetSettingData and LVGetDat call returns a value drawn   *)
(* from a small set.  Start, Halt and Continue return 0.  A measure        *)
(* command is a sequence of steps, one per status read, so that a command  *)
(* that keeps waiting is a behaviour of the model.                         *)
(***************************************************************************)
\* start_measure line 369, stop_measure line 385
n_wait_max == 20
\* values of status.started: 0 stopped, 1 running, 3 about to stop, and a
\* value the driver does not know
DevStarted == {0, 1, 2, 3}
\* setting.range, setting.cycles and the bin contents the card delivers
DevRange == {2}
DevCycles == {0, 2}
Counts == {0, 1}
DevSweeps == {5}
\* ret of a command that has not returned
Pending == -4

\* get_status, lines 330-344, for a read other than 3
StatusOf(started) ==
    IF started = 1 THEN 2
    ELSE IF started = 0
         THEN IF stopped_or_halt = "stopped" THEN 1
              ELSE IF stopped_or_halt = "halt" THEN 3
              ELSE -1
         ELSE -1

\* get_data_trace, lines 447-455: shape of the array handed to LVGetDat
TraceRows(H) == IF H = 0 THEN 1 ELSE H
TraceShape(N, H) ==
    IF gated THEN <<TraceRows(H), N \div TraceRows(H)>> ELSE <<N>>
\* the arrays of that shape the card can fill in
DevData(N, H) ==
    IF gated
    THEN [1..TraceShape(N, H)[1] -> [1..TraceShape(N, H)[2] -> Counts]]
    ELSE [1..N -> Counts]

\* get_data_trace, lines 462-463.  timetrace_tmp is [] or the tuple
\* (time_trace, info_dict) that pause_measure stored: numpy cannot add that
\* tuple to the array, the addition raises.
AddSnapshotRaises == gated /\ timetrace_tmp # <<>>

\* the wait loop of a command is entered
Enter(op, loop) ==
    /\ pc = "idle"
    /\ pc' = loop
    /\ i_wait' = 0
    /\ waits' = 0
    /\ in_get_status' = FALSE
    /\ call' = [op |-> op, arg |-> ""]
    /\ ret' = Pending
    /\ log' = ""
    /\ dev_started' = 0
    /\ fresh' = <<>>
    /\ result' = <<>>
    /\ dll_error' = FALSE
    /\ UNCHANGED <<closed, configured, gated, setting>>

start_measure ==
    /\ Enter("start_measure", "start_measure")
    /\ UNCHANGED <<stopped_or_halt, timetrace_tmp>>

stop_measure ==
    /\ Enter("stop_measure", "stop_measure")
    /\ stopped_or_halt' = "stopped"
    /\ UNCHANGED timetrace_tmp

pause_measure ==
    /\ Enter("pause_measure", "pause_measure")
    /\ stopped_or_halt' = "halt"
    /\ UNCHANGED timetrace_tmp

\* gated: start_measure(); otherwise Continue(0) and an own wait loop
continue_measure ==
    /\ Enter("continue_measure", IF gated THEN "start_measure" ELSE "continue_measure")
    /\ UNCHANGED <<stopped_or_halt, timetrace_tmp>>

get_status ==
    /\ Enter("get_status", "get_status")
    /\ UNCHANGED <<stopped_or_halt, timetrace_tmp>>

\* the command returns r
Leave(r, msg) ==
    /\ pc' = "idle"
    /\ ret' = r
    /\ log' = msg

\* one time.sleep(0.05) of a wait loop, then get_status again
Wait ==
    /\ waits < MaxWaits
    /\ waits' = waits + 1
    /\ UNCHANGED <<pc, ret, log>>

\* One GetStatusData call in get_status, made from the loop condition of the
\* command pc names.  started = 3: get_status sleeps and reads again.
GetStatusData(started) ==
    LET st == StatusOf(started) IN
    /\ pc \in {"start_measure", "stop_measure", "pause_measure",
               "continue_measure", "get_status"}
    /\ dev_started' = started
    /\ UNCHANGED <<call, closed, gated, stopped_or_halt, configured, fresh, result,
                   dll_error, setting>>
    /\ IF started = 3
       THEN /\ in_get_status' = TRUE
            /\ UNCHANGED <<pc, ret, log, i_wait, waits, timetrace_tmp>>
       ELSE
       /\ in_get_status' = FALSE
       /\ CASE pc = "start_measure" ->
                 /\ IF st # 2 /\ i_wait < n_wait_max
                    THEN Wait /\ i_wait' = i_wait + 1
                    ELSE /\ Leave(0, IF i_wait >= n_wait_max
                                     THEN "Starting fastcomtec timed out." ELSE "")
                         /\ UNCHANGED <<i_wait, waits>>
                 /\ UNCHANGED timetrace_tmp
            [] pc = "stop_measure" ->
                 IF st # 1 /\ i_wait < n_wait_max
                 THEN Wait /\ i_wait' = i_wait + 1 /\ UNCHANGED timetrace_tmp
                 ELSE /\ Leave(0, IF i_wait >= n_wait_max
                                  THEN "Stopping fastcomtec timed out." ELSE "")
                      /\ timetrace_tmp' = IF gated THEN <<>> ELSE timetrace_tmp
                      /\ UNCHANGED <<i_wait, waits>>
            [] pc = "pause_measure" ->
                 /\ IF st # 3
                    THEN Wait
                    ELSE /\ IF gated
                            THEN pc' = "pause_snapshot" /\ UNCHANGED <<ret, log>>
                            ELSE Leave(0, "")
                         /\ UNCHANGED waits
                 /\ UNCHANGED <<i_wait, timetrace_tmp>>
            [] pc = "continue_measure" ->
                 /\ IF st # 2
                    THEN Wait
                    ELSE Leave(0, "") /\ UNCHANGED waits
                 /\ UNCHANGED <<i_wait, timetrace_tmp>>
            [] pc = "get_status" ->
                 /\ Leave(st, IF st = -1
                              THEN "There is an unknown status from FastComtec."
                              ELSE "")
                 /\ UNCHANGED <<i_wait, waits, timetrace_tmp>>

\* get_data_trace(): N, H from GetSettingData, data from LVGetDat, sweeps
\* from get_current_sweeps
get_data_trace(N, H, data, sweeps) ==
    /\ pc = "idle"
    /\ call' = [op |-> "get_data_trace", arg |-> ""]
    /\ log' = ""
    /\ fresh' = data
    /\ dll_error' = FALSE
    /\ IF AddSnapshotRaises
       THEN ret' = Raised /\ result' = <<>>
       ELSE ret' = 0 /\ result' = <<data, sweeps>>
    /\ UNCHANGED <<closed, gated, stopped_or_halt, timetrace_tmp, pc, i_wait,
                   waits, in_get_status, dev_started, configured, setting>>

\* pause_measure, lines 404-406, gated: timetrace_tmp = self.get_data_trace()
pause_snapshot(N, H, data, sweeps) ==
    /\ pc = "pause_snapshot"
    /\ fresh' = data
    /\ IF AddSnapshotRaises
       THEN Leave(Raised, "") /\ UNCHANGED timetrace_tmp
       ELSE Leave(0, "") /\ timetrace_tmp' = <<data, sweeps>>
    /\ UNCHANGED <<call, closed, gated, stopped_or_halt, i_wait, waits,
                   in_get_status, dev_started, configured, result, dll_error,
                   setting>>

\* GetStatusData raises inside get_status: no method of the class has a try
\* block, the exception leaves get_status and the command that called it
GetStatusDataRaises ==
    /\ pc \in {"start_measure", "stop_measure", "pause_measure",
               "continue_measure", "get_status"}
    /\ Leave(Raised, "")
    /\ dll_error' = TRUE
    /\ in_get_status' = FALSE
    /\ UNCHANGED <<call, closed, gated, stopped_or_halt, timetrace_tmp, i_wait,
                   waits, dev_started, configured, fresh, result, setting>>

\* GetSettingData or LVGetDat raises inside get_data_trace
get_data_trace_raises ==
    /\ pc = "idle"
    /\ call' = [op |-> "get_data_trace", arg |-> ""]
    /\ log' = ""
    /\ ret' = Raised
    /\ dll_error' = TRUE
    /\ fresh' = <<>>
    /\ result' = <<>>
    /\ UNCHANGED <<closed, gated, stopped_or_halt, timetrace_tmp, pc, i_wait,
                   waits, in_get_status, dev_started, configured, setting>>

\* Times are counted in units of 0.125 ns, half the minimal bin width, so
\* that the bin width of bitshift -1 is a whole number.
ns == 8
us == 1000 * ns
\* ConfigOption defaults, lines 166-168
trigger_safety == 200 * ns
aom_delay == 400 * ns
minimal_binwidth == 2

\* get_constraints, line 242: 6.8/0.25e-9 is the float 27199999999.999996;
\* an integer is below it exactly when it is below 27200000000, written
\* here in base 65536
max_bins == <<4096, 21823, 6, 0>>
\* get_constraints, lines 239-240
MaxBitshift == 24
hardware_binwidth_list == {minimal_binwidth * 2^k : k \in 0..MaxBitshift}

\* a < b for two numbers in base 65536
Less(a, b) ==
    \E i \in 1..4 : a[i] < b[i] /\ \A j \in (i + 1)..4 : a[j] = b[j]

\* Python's int(a / b) for b > 0: the quotient truncated towards zero
Trunc(a, b) == IF a >= 0 THEN a \div b ELSE -((-a) \div b)

\* n * cycles < constraints['max_bins'] for a cycle count of the card
BelowMaxBins(n, cycles) ==
    n <= 0 \/ Less(Times(Carry(Digits(n)), cycles), max_bins)

\* get_bitshift, get_cycles and get_length read the settings s of the card
get_bitshift(s) == s.bitshift
get_cycles(s) == s.cycles
get_length_of(s) ==
    LET cycles == IF gated
                  THEN IF get_cycles(s) = 0 THEN 1 ELSE get_cycles(s)
                  ELSE 1
    IN Trunc(s.range, cycles)

\* get_binwidth, line 434: minimal_binwidth * 2**bitshift
BinWidth(bitshift) ==
    IF bitshift >= 0 THEN minimal_binwidth * 2^bitshift
    ELSE minimal_binwidth \div 2^(-bitshift)
get_binwidth(s) == BinWidth(get_bitshift(s))

\* the integer part of log2(n) for n >= 1
RECURSIVE Log2(_)
Log2(n) == IF n < 2 THEN 0 ELSE 1 + Log2(n \div 2)
\* set_binwidth, line 517: int(np.log2(binwidth / minimal_binwidth)) for a
\* positive binwidth; int() truncates a negative logarithm towards zero
BitshiftOf(binwidth) ==
    IF binwidth >= minimal_binwidth
    THEN Log2(binwidth \div minimal_binwidth)
    ELSE -Log2(minimal_binwidth \div binwidth)
\* np.log2 of zero is -inf and of a negative number nan: int() raises
Log2Raises(binwidth) == binwidth <= 0

\* set_bitshift, lines 503-504: BITSHIFT={bitshift}
WriteBitshift(s, bitshift) == [s EXCEPT !.bitshift = bitshift]

\* set_length, lines 530-534: the dimension check
LengthAccepted(s, length_bins) ==
    BelowMaxBins(length_bins, IF gated THEN get_cycles(s) ELSE 1)
\* set_length, line 536
RoundedLength(length_bins) == 64 * Trunc(length_bins, 64)
\* set_length, lines 537-540: RANGE={length_bins}
WriteLength(s, length_bins) ==
    IF LengthAccepted(s, length_bins)
    THEN [s EXCEPT !.range = RoundedLength(length_bins)]
    ELSE s
LengthReturn(s, length_bins) ==
    IF LengthAccepted(s, length_bins) THEN RoundedLength(length_bins) ELSE -1
TooLarge == "Dimensions are too large for fast counter!"
LengthLog(s, length_bins) ==
    IF LengthAccepted(s, length_bins) THEN "" ELSE TooLarge

\* set_cycles, lines 768-777
CyclesWritten(cycles) == IF cycles = 0 THEN 1 ELSE cycles
CyclesAccepted(s, cycles) == BelowMaxBins(get_length_of(s), CyclesWritten(cycles))
WriteCycles(s, cycles) ==
    IF CyclesAccepted(s, cycles)
    THEN [s EXCEPT !.cycles = CyclesWritten(cycles)]
    ELSE s
CyclesLog(s, cycles) == IF CyclesAccepted(s, cycles) THEN "" ELSE TooLarge

\* requested lengths in bins, bin widths and record lengths in time units,
\* numbers of gates and cycles
BigLength == 2000000000
LengthArgs == {-130, -1, 0, 63, 130, 3008, BigLength}
BigBinwidth == minimal_binwidth * 2^(MaxBitshift + 1)
BinwidthArgs == {0, 1, minimal_binwidth, ns, 3 * ns, BigBinwidth}
RecordLengthArgs == {100 * ns, 264 * ns, us}
GatesArgs == {0, 2}
DevCyclesArgs == {0, 2, 16}
CyclesArgs == {NoneArg} \cup {<<c>> : c \in DevCyclesArgs}

\* a settings command of the idle driver returns r
Settings(op, arg, r, msg) ==
    /\ pc = "idle"
    /\ call' = [op |-> op, arg |-> arg]
    /\ ret' = r
    /\ log' = msg
    /\ dll_error' = FALSE
    /\ fresh' = <<>>
    /\ UNCHANGED <<closed, stopped_or_halt, timetrace_tmp, pc, i_wait, waits,
                   in_get_status, dev_started>>

set_length(length_bins) ==
    /\ Settings("set_length", length_bins, LengthReturn(setting, length_bins),
                LengthLog(setting, length_bins))
    /\ setting' = WriteLength(setting, length_bins)
    /\ result' = <<>>
    /\ UNCHANGED <<gated, configured>>

get_length ==
    /\ Settings("get_length", "", get_length_of(setting), "")
    /\ result' = <<>>
    /\ UNCHANGED <<gated, configured, setting>>

set_binwidth(binwidth) ==
    /\ IF Log2Raises(binwidth)
       THEN /\ Settings("set_binwidth", binwidth, Raised, "")
            /\ UNCHANGED setting
       ELSE /\ Settings("set_binwidth", binwidth,
                        BinWidth(BitshiftOf(binwidth)), "")
            /\ setting' = WriteBitshift(setting, BitshiftOf(binwidth))
    /\ result' = <<>>
    /\ UNCHANGED <<gated, configured>>

set_cycles(cycles) ==
    /\ Settings("set_cycles", cycles,
                IF CyclesAccepted(setting, cycles) THEN CyclesWritten(cycles) ELSE -1,
                CyclesLog(setting, cycles))
    /\ setting' = WriteCycles(setting, cycles)
    /\ result' = <<>>
    /\ UNCHANGED <<gated, configured>>

\* configure, lines 270-280: the number of bins for the bin width read back
NoOfBins(bin_width_new, record_length_s) ==
    IF gated
    THEN Trunc(record_length_s + aom_delay, bin_width_new)
    ELSE Trunc(record_length_s - trigger_safety, bin_width_new)

\* configure(bin_width_s, record_length_s, number_of_gates) with filename,
\* n_sequences and n_sweeps_preset left at None: set_binwidth, set_length,
\* and in gated mode set_cycles
configure(bin_width_s, record_length_s, number_of_gates) ==
    LET s1 == WriteBitshift(setting, BitshiftOf(bin_width_s))
        bin_width_new == get_binwidth(s1)
        no_of_bins == NoOfBins(bin_width_new, record_length_s)
        s2 == WriteLength(s1, no_of_bins)
        s3 == IF gated THEN WriteCycles(s2, number_of_gates) ELSE s2
        msg == IF gated /\ ~CyclesAccepted(s2, number_of_gates)
               THEN CyclesLog(s2, number_of_gates)
               ELSE LengthLog(s1, no_of_bins)
    IN
    IF Log2Raises(bin_width_s)
    THEN /\ Settings("configure",
                     <<bin_width_s, record_length_s, number_of_gates>>, Raised, "")
         /\ result' = <<>>
         /\ UNCHANGED <<gated, configured, setting>>
    ELSE /\ Settings("configure",
                     <<bin_width_s, record_length_s, number_of_gates>>, 0, msg)
         /\ setting' = s3
         /\ configured' = TRUE
         /\ result' = <<get_binwidth(s3), get_length_of(s3) * bin_width_new,
                        number_of_gates>>
         /\ UNCHANGED gated

\* change_sweep_mode(gated, cycles), lines 650-659: a record of more than
\* 3000 bins is cut to 64, set_cycle_mode writes the cycles if given, and
\* only then is self.gated assigned
change_sweep_mode(g, cycles) ==
    LET s1 == IF get_length_of(setting) > 3000
              THEN WriteLength(setting, 64) ELSE setting
        s2 == IF cycles = NoneArg THEN s1 ELSE WriteCycles(s1, cycles[1])
        msg == IF cycles # NoneArg /\ ~CyclesAccepted(s1, cycles[1])
               THEN TooLarge
               ELSE IF get_length_of(setting) > 3000
                    THEN LengthLog(setting, 64) ELSE ""
    IN
    /\ Settings("change_sweep_mode", "", 0, msg)
    /\ gated' = g
    /\ setting' = s2
    /\ result' = <<>>
    /\ UNCHANGED configured

StartMeasure == UNCHANGED <<niVars, guiVars, otherVars>> /\ start_measure
StopMeasure == UNCHANGED <<niVars, guiVars, otherVars>> /\ stop_measure
PauseMeasure == UNCHANGED <<niVars, guiVars, otherVars>> /\ pause_measure
ContinueMeasure == UNCHANGED <<niVars, guiVars, otherVars>> /\ continue_measure
GetStatus == UNCHANGED <<niVars, guiVars, otherVars>> /\ get_status
StatusRead == UNCHANGED <<niVars, guiVars, otherVars>> /\ \E started \in DevStarted : GetStatusData(started)
StatusReadRaises == UNCHANGED <<niVars, guiVars, otherVars>> /\ GetStatusDataRaises
GetDataTraceRaises == UNCHANGED <<niVars, guiVars, otherVars>> /\ get_data_trace_raises
GetDataTrace ==
    /\ UNCHANGED <<niVars, guiVars, otherVars>>
    /\ \E N \in DevRange, H \in DevCycles, sweeps \in DevSweeps :
          \E data \in DevData(N, H) : get_data_trace(N, H, data, sweeps)
PauseSnapshot ==
    /\ UNCHANGED <<niVars, guiVars, otherVars>>
    /\ \E N \in DevRange, H \in DevCycles, sweeps \in DevSweeps :
          \E data \in DevData(N, H) : pause_snapshot(N, H, data, sweeps)
Configure(B, R, G) ==
    /\ UNCHANGED <<niVars, guiVars, otherVars>>
    /\ \E bin_width_s \in B, record_length_s \in R, number_of_gates \in G :
          configure(bin_width_s, record_length_s, number_of_gates)
ChangeSweepMode(C) ==
    /\ UNCHANGED <<niVars, guiVars, otherVars>>
    /\ \E g \in BOOLEAN, cycles \in C : change_sweep_mode(g, cycles)
SetLength == UNCHANGED <<niVars, guiVars, otherVars>> /\ \E length_bins \in LengthArgs : set_length(length_bins)
GetLength == UNCHANGED <<niVars, guiVars, otherVars>> /\ get_length
SetBinwidth == UNCHANGED <<niVars, guiVars, otherVars>> /\ \E binwidth \in BinwidthArgs : set_binwidth(binwidth)
SetCycles == UNCHANGED <<niVars, guiVars, otherVars>> /\ \E cycles \in DevCyclesArgs : set_cycles(cycles)

NextFastComtec ==
    \/ StartMeasure
    \/ StopMeasure
    \/ PauseMeasure
    \/ ContinueMeasure
    \/ GetStatus
    \/ StatusRead
    \/ StatusReadRaises
    \/ GetDataTraceRaises
    \/ GetDataTrace
    \/ PauseSnapshot
    \/ Configure({ns}, {us}, {0})
    \/ ChangeSweepMode({NoneArg})

SpecFastComtec == Init /\ [][NextFastComtec]_vars

\* the settings interface of the card
NextSettings ==
    \/ SetLength
    \/ GetLength
    \/ SetBinwidth
    \/ SetCycles
    \/ Configure(BinwidthArgs, RecordLengthArgs, GatesArgs)
    \/ ChangeSweepMode(CyclesArgs)

SpecSettings == InitRegistry /\ [][NextSettings]_vars
(***************************************************************************)
(* C8: each of start_measure, stop_measure, pause_measure and              *)
(* continue_measure returns after at most 20 waits for the card's status,  *)
(* even when the card never reports the expected state.                    *)
(***************************************************************************)
C8_BoundedWaiting == waits <= n_wait_max

(***************************************************************************)
(* C9: get_status returns 0 while the card is unconfigured, and otherwise  *)
(* 2 when the card reports running, 1 or 3 when it reports stopped (1      *)
(* after stop_measure, 3 after pause_measure) and -1 for an unknown flag.  *)
(***************************************************************************)
C9_Expected(started) ==
    IF ~configured THEN 0
    ELSE IF started = 1 THEN 2
    ELSE IF started = 0 THEN (IF stopped_or_halt = "halt" THEN 3 ELSE 1)
    ELSE -1

C9_Step ==
    (pc = "get_status" /\ pc' = "idle") => ret' = C9_Expected(dev_started')

C9_StatusCodes == [][C9_Step]_vars

(***************************************************************************)
(* C10: in gated mode, once pause_measure has stored a snapshot, the next  *)
(* get_data_trace returns the fresh read plus the snapshot element-wise,   *)
(* in the gated shape (cycles, range/cycles).                              *)
(***************************************************************************)
AddTraces(a, b) == [i \in DOMAIN a |-> [j \in DOMAIN a[i] |-> a[i][j] + b[i][j]]]

C10_Step ==
    (/\ call'.op = "get_data_trace"
     /\ gated
     /\ timetrace_tmp # <<>>)
    => /\ ret' = 0
       /\ result' # <<>>
       /\ DOMAIN result'[1] = DOMAIN timetrace_tmp[1]
          => result'[1] = AddTraces(fresh', timetrace_tmp[1])

C10_SnapshotAddedToNextTrace == [][C10_Step]_vars

(***************************************************************************)
(* Cavity stabilisation console.  The handlers of the console are the      *)
(* actions; the cavity logic is the environment: a run begins with         *)
(* _initialise_scanner or start_cavity_stabilisation, a scan ends when the *)
(* logic emits sigScanFinished, a stabilisation ends with                  *)
(* stop_cavity_stabilisation.  Voltages are whole volts, resolutions are   *)
(* counted in steps of 2^-16 V.                                            *)
(***************************************************************************)
\* values the user enters into the start, stop and resolution spin boxes
Voltages == 0..2
Resolutions == 0..3

\* CavityStabilisationLogic.calculate_resolution(bits, [minV, maxV]): the span
\* divided into 2^bits steps, here in units of 2^-bits V
calculate_resolution(bits, range) == range[2] - range[1]

Min(a, b) == IF a <= b THEN a ELSE b
Max(a, b) == IF a <= b THEN b ELSE a
\* lines 409-411
maximal_scan_resolution ==
    calculate_resolution(16, <<Min(start_voltage, end_voltage),
                               Max(start_voltage, end_voltage)>>)

SetEnabled(e, ws, b) == [w \in Widgets |-> IF w \in ws THEN b ELSE e[w]]
\* disable_scan_actions, lines 297-315
disable_scan_actions(e) ==
    SetEnabled(SetEnabled(e, StopActions, TRUE), StartActions \cup ParamWidgets, FALSE)
\* enable_scan_actions, lines 317-335
enable_scan_actions(e) ==
    SetEnabled(SetEnabled(e, StartActions \cup ParamWidgets, TRUE), StopActions, FALSE)
\* disable_stop_action, lines 337-339
disable_stop_action(e) == SetEnabled(e, {"action_stop_scanning"}, FALSE)

Handled(op, arg, msg) ==
    /\ Returns(op, arg, RetNone, msg)
    /\ UNCHANGED closed

\* the stored and the displayed resolution after scan_resolution_changed ran
\* with the spin box showing resolution.  setValue emits valueChanged when
\* the value changes: the handler runs once more, inside setValue, with the
\* maximum in the spin box.
ClampsResolution_Reversed(resolution) == resolution > maximal_scan_resolution
ClampsResolution(resolution) == resolution < maximal_scan_resolution
StoredResolution(resolution) ==
    IF ClampsResolution(resolution) THEN maximal_scan_resolution ELSE resolution
ShownResolution(resolution) ==
    IF ClampsResolution(resolution) THEN maximal_scan_resolution ELSE resolution
ResolutionWarning(resolution) ==
    IF ClampsResolution(resolution)
    THEN "Maximum scan resolution of scanning device exceeded! Set scan resolution to maximum value."
    ELSE ""

start_clicked ==
    /\ enabled["action_start_scanning"]
    /\ enabled' = disable_scan_actions(enabled)
    /\ run' = "scan"
    /\ Handled("start_clicked", "", "")
    /\ UNCHANGED <<maximal_scan_resolution_DisplayWidget,
                   max_scan_resolution_checkBox, scan_resolution_spinBox,
                   stopRequested, start_voltage, end_voltage, scan_resolution,
                   use_maximal_resolution>>

stop_clicked ==
    /\ enabled["action_stop_scanning"]
    /\ stopRequested' = TRUE
    /\ enabled' = enable_scan_actions(disable_stop_action(enabled))
    /\ Handled("stop_clicked", "", "")
    /\ UNCHANGED <<maximal_scan_resolution_DisplayWidget,
                   max_scan_resolution_checkBox, scan_resolution_spinBox, run,
                   start_voltage, end_voltage, scan_resolution,
                   use_maximal_resolution>>

stabilize_clicked ==
    /\ enabled["action_stabilize_cavity"]
    /\ enabled' = disable_scan_actions(enabled)
    /\ run' = "stabilisation"
    /\ Handled("stabilize_clicked", "", "")
    /\ UNCHANGED <<maximal_scan_resolution_DisplayWidget,
                   max_scan_resolution_checkBox, scan_resolution_spinBox,
                   stopRequested, start_voltage, end_voltage, scan_resolution,
                   use_maximal_resolution>>

stop_stabilize_clicked ==
    /\ enabled["action_stop_stabilization"]
    /\ run' = IF run = "stabilisation" THEN "idle" ELSE run
    /\ enabled' = enable_scan_actions(enabled)
    /\ Handled("stop_stabilize_clicked", "", "")
    /\ UNCHANGED <<maximal_scan_resolution_DisplayWidget,
                   max_scan_resolution_checkBox, scan_resolution_spinBox,
                   stopRequested, start_voltage, end_voltage, scan_resolution,
                   use_maximal_resolution>>

\* the user edits the scan resolution spin box: valueChanged
scan_resolution_changed(resolution) ==
    /\ enabled["scan_resolution_spinBox"]
    /\ resolution # scan_resolution_spinBox
    /\ scan_resolution' = StoredResolution(resolution)
    /\ scan_resolution_spinBox' = ShownResolution(resolution)
    /\ Handled("scan_resolution_changed", resolution, ResolutionWarning(resolution))
    /\ UNCHANGED <<enabled, max_scan_resolution_checkBox, run, stopRequested,
                   start_voltage, end_voltage, use_maximal_resolution,
                   maximal_scan_resolution_DisplayWidget>>

\* toggle_scan_resolution, lines 436-443, run by the check box's toggled
\* signal; unchecking runs scan_resolution_changed on the value shown
toggle_scan_resolution ==
    /\ max_scan_resolution_checkBox' = ~max_scan_resolution_checkBox
    /\ use_maximal_resolution' = ~max_scan_resolution_checkBox
    /\ IF ~max_scan_resolution_checkBox
       THEN /\ enabled' = SetEnabled(enabled, {"scan_resolution_spinBox"}, FALSE)
            /\ UNCHANGED <<scan_resolution, scan_resolution_spinBox>>
            /\ Handled("toggle_scan_resolution", "", "")
       ELSE /\ enabled' = SetEnabled(enabled, {"scan_resolution_spinBox"}, TRUE)
            /\ scan_resolution' = StoredResolution(scan_resolution_spinBox)
            /\ scan_resolution_spinBox' = ShownResolution(scan_resolution_spinBox)
            /\ Handled("toggle_scan_resolution", "",
                       ResolutionWarning(scan_resolution_spinBox))
    /\ UNCHANGED <<run, stopRequested, start_voltage, end_voltage,
                   maximal_scan_resolution_DisplayWidget>>

\* update_maximal_scan_resolution, lines 447-452, with the span start..stop:
\* the value it puts on the display
update_maximal_scan_resolution(start, stop) ==
    calculate_resolution(16, <<Min(start, stop), Max(start, stop)>>)

\* start_value_changed and stop_value_changed, lines 419-429
start_value_changed(start) ==
    /\ enabled["start_spinBox"]
    /\ start_voltage' = start
    /\ maximal_scan_resolution_DisplayWidget'
          = update_maximal_scan_resolution(start, end_voltage)
    /\ Handled("start_value_changed", "", "")
    /\ UNCHANGED <<enabled, max_scan_resolution_checkBox, scan_resolution_spinBox,
                   run, stopRequested, end_voltage, scan_resolution,
                   use_maximal_resolution>>

stop_value_changed(stop) ==
    /\ enabled["stop_spinBox"]
    /\ end_voltage' = stop
    /\ maximal_scan_resolution_DisplayWidget'
          = update_maximal_scan_resolution(start_voltage, stop)
    /\ Handled("stop_value_changed", "", "")
    /\ UNCHANGED <<enabled, max_scan_resolution_checkBox, scan_resolution_spinBox,
                   run, stopRequested, start_voltage, scan_resolution,
                   use_maximal_resolution>>

\* the logic ends the scan and emits sigScanFinished: update_gui, lines
\* 386-399, which ends with toggle_scan_resolution() on the check box as it is
update_gui ==
    /\ run = "scan"
    /\ run' = "idle"
    /\ stopRequested' = FALSE
    /\ use_maximal_resolution' = max_scan_resolution_checkBox
    /\ IF max_scan_resolution_checkBox
       THEN /\ enabled' = SetEnabled(enable_scan_actions(enabled),
                                     {"scan_resolution_spinBox"}, FALSE)
            /\ UNCHANGED <<scan_resolution, scan_resolution_spinBox>>
            /\ Handled("update_gui", "", "")
       ELSE /\ enabled' = enable_scan_actions(enabled)
            /\ scan_resolution' = StoredResolution(scan_resolution_spinBox)
            /\ scan_resolution_spinBox' = ShownResolution(scan_resolution_spinBox)
            /\ Handled("update_gui", "", ResolutionWarning(scan_resolution_spinBox))
    /\ UNCHANGED <<max_scan_resolution_checkBox, start_voltage, end_voltage,
                   maximal_scan_resolution_DisplayWidget>>

StartClicked == UNCHANGED <<niVars, fctVars, otherVars>> /\ start_clicked
StopClicked == UNCHANGED <<niVars, fctVars, otherVars>> /\ stop_clicked
StabilizeClicked == UNCHANGED <<niVars, fctVars, otherVars>> /\ stabilize_clicked
StopStabilizeClicked == UNCHANGED <<niVars, fctVars, otherVars>> /\ stop_stabilize_clicked
ScanResolutionChanged ==
    /\ UNCHANGED <<niVars, fctVars, otherVars>>
    /\ \E resolution \in Resolutions : scan_resolution_changed(resolution)
ToggleScanResolution == UNCHANGED <<niVars, fctVars, otherVars>> /\ toggle_scan_resolution
StartValueChanged ==
    /\ UNCHANGED <<niVars, fctVars, otherVars>>
    /\ \E start \in Voltages : start_value_changed(start)
StopValueChanged ==
    /\ UNCHANGED <<niVars, fctVars, otherVars>>
    /\ \E stop \in Voltages : stop_value_changed(stop)
UpdateGui == UNCHANGED <<niVars, fctVars, otherVars>> /\ update_gui

NextCavity ==
    \/ StartClicked
    \/ StopClicked
    \/ StabilizeClicked
    \/ StopStabilizeClicked
    \/ ScanResolutionChanged
    \/ ToggleScanResolution
    \/ StartValueChanged
    \/ StopValueChanged
    \/ UpdateGui

SpecCavity == InitRegistry /\ [][NextCavity]_vars

\* the edits of the scan parameters alone
NextEdits ==
    \/ ScanResolutionChanged
    \/ StartValueChanged
    \/ StopValueChanged

SpecEdits == InitRegistry /\ [][NextEdits]_vars

(***************************************************************************)
(* Activation of the DAQ driver: on_activate reads the analogue channel    *)
(* and range options of the configuration and fills the voltage ranges.    *)
(* A configuration names its channels (the physical channel a name stands  *)
(* for plays no part) and gives ranges as name -> <<vlow, vhigh>>.         *)
(***************************************************************************)
OutputNames == {"x", "y"}
InputNames == {"ai0"}
\* the order in which the keys of a configuration dict are visited
KeyOrder == <<"x", "y", "ai0">>
\* a range with vlow < vhigh and one without
RangeValues == {<<0, 5>>, <<5, 0>>}
DefaultOutputRange == <<0, 6>>
DefaultInputRange == <<0, 2>>
RangeDicts(names) == UNION {[K -> RangeValues] : K \in SUBSET names}
Configs ==
    [a_o_channels : SUBSET OutputNames, a_o_ranges : RangeDicts(OutputNames),
     a_i_channels : SUBSET InputNames, a_i_ranges : RangeDicts(InputNames)]

RECURSIVE RangeLoop(_, _, _, _, _)
\* on_activate, lines 182-194 (output) and 212-224 (input): the loop over
\* the first n keys of the ranges option.  The warning of a range that is
\* not vlow < vhigh reads self._ao_voltage_range[i] in the output loop, an
\* entry that does not exist yet: KeyError.  The input loop reads the
\* option instead and stores the default range.
RangeLoop(n, channels, ranges, default, output) ==
    IF n = 0 THEN [range |-> EmptyDict, list |-> {}, raised |-> FALSE]
    ELSE LET before == RangeLoop(n - 1, channels, ranges, default, output)
             i == KeyOrder[n]
         IN IF before.raised \/ i \notin DOMAIN ranges \/ i \notin channels
            THEN before
            ELSE IF ranges[i][1] < ranges[i][2]
            THEN [range |-> Put(before.range, i, ranges[i]),
                  list |-> before.list \cup {i}, raised |-> FALSE]
            ELSE IF output
            THEN [before EXCEPT !.raised = TRUE]
            ELSE [range |-> Put(before.range, i, default),
                  list |-> before.list \cup {i}, raised |-> FALSE]

\* on_activate, line 199 (output) stores under the key "i", line 229 (input)
\* under the name of the channel
MissingKey(i, output) == IF output THEN "i" ELSE i

\* on_activate, lines 196-199 and 226-229: channels without a range
VoltageRanges(channels, ranges, default, output) ==
    LET loop == RangeLoop(Len(KeyOrder), channels, ranges, default, output)
        missing == {MissingKey(i, output) : i \in channels \ loop.list}
    IN [loop EXCEPT !.range = IF loop.raised THEN @ ELSE PutAll(@, missing, default)]

StartOutcome == {"ok", "fail"}

\* on_activate(): the task fields are reset, the voltage ranges are filled
\* and the analogue output is started; hw is the outcome of
\* _start_analog_output
on_activate(cfg, hw) ==
    LET ao == VoltageRanges(cfg.a_o_channels, cfg.a_o_ranges, DefaultOutputRange, TRUE)
        ai == VoltageRanges(cfg.a_i_channels, cfg.a_i_ranges, DefaultInputRange, FALSE)
        started == ~ao.raised /\ hw = "ok"
    IN
    /\ call' = [op |-> "on_activate", arg |-> cfg]
    /\ ret' = IF started THEN 0 ELSE Raised
    /\ log' = IF ~ao.raised /\ hw = "fail" THEN "Failed to start analog output." ELSE ""
    /\ ao_voltage_range' = ao.range
    /\ ai_voltage_range' = IF ao.raised THEN EmptyDict ELSE ai.range
    /\ clock_daq_task' = None
    /\ scanner_clock_daq_task' = None
    /\ clock_daq_task_new' = EmptyDict
    /\ clock_channel_new' = EmptyDict
    /\ clock_frequency_new' = EmptyDict
    /\ hwClock' = EmptyDict
    /\ counter_daq_tasks' = <<>>
    /\ scanner_counter_daq_tasks' = <<>>
    /\ gated_counter_daq_task' = None
    /\ scanner_analog_daq_task' = None
    /\ scanner_ao_task' = IF started THEN 1 ELSE None
    \* _start_analog_output creates the task anew
    /\ ao_timing_type' = "OnDemand"
    /\ analogue_input_daq_tasks' = EmptyDict
    /\ analogue_input_started' = FALSE
    /\ UNCHANGED hwReader
    /\ hwRole' = IF started THEN {1} ELSE {}
    /\ current_position' = IF ao.raised THEN current_position
                           ELSE [i \in 1..NAxes |-> 0]
    /\ UNCHANGED <<closed, clock_channel, scanner_clock_channel, clock_frequency,
                   scanner_clock_frequency, finite_clock_frequency, module_state,
                   ao_writes, scanner_ai_channels, all_data, count_data,
                   pixel_clock_connected>>

OnActivate ==
    /\ UNCHANGED <<fctVars, guiVars, pulseVars, consoleVars>>
    /\ \E cfg \in Configs, hw \in StartOutcome : on_activate(cfg, hw)

NextActivation == OnActivate

SpecActivation == InitRegistry /\ [][NextActivation]_vars

(***************************************************************************)
(* C25: after activation of the DAQ driver, every configured analogue      *)
(* output channel name and every configured analogue input channel name    *)
(* has a voltage-range entry under its own name: the configured range when *)
(* one is given and valid, otherwise the default range.                    *)
(***************************************************************************)
C25_Expected(ranges, i, default) ==
    IF i \in DOMAIN ranges /\ ranges[i][1] < ranges[i][2] THEN ranges[i] ELSE default

C25_Step ==
    (call'.op = "on_activate" /\ log' # "Failed to start analog output.")
    => /\ ret' = 0
       /\ \A i \in call'.arg.a_o_channels :
             /\ i \in DOMAIN ao_voltage_range'
             /\ ao_voltage_range'[i]
                   = C25_Expected(call'.arg.a_o_ranges, i, DefaultOutputRange)
       /\ \A i \in call'.arg.a_i_channels :
             /\ i \in DOMAIN ai_voltage_range'
             /\ ai_voltage_range'[i]
                   = C25_Expected(call'.arg.a_i_ranges, i, DefaultInputRange)

C25_EveryChannelHasRange == [][C25_Step]_vars

(***************************************************************************)
(* Pulse generator library (PentaceneMethods).  Every generator builds one *)
(* measurement block and one ensemble and returns them; the model keeps    *)
(* the block, the ensemble and the measurement information of the last     *)
(* generator call.  Times and frequencies of an element are kept as the    *)
(* expressions the generator passes.                                       *)
(***************************************************************************)
laser_channel == "laser_channel"
gate_channel == "gate_channel"
JumpChannels == {"d_ch4"}
\* a frequency: <<expression, index of the sweep point, divisor>>
NoFreq == <<"", 0, 1>>
Freq(expr) == <<expr, 0, 1>>
\* freq_array[i] and freq_array[i] / 2.
FreqPoint(i) == <<"freq_array", i, 1>>
HalfFreqPoint(i) == <<"freq_array", i, 2>>

Element(kind, length, increment, amp, freq, phase, high) ==
    [kind |-> kind, length |-> length, increment |-> increment, amp |-> amp,
     freq |-> freq, phase |-> phase, digital_high |-> high]
\* the element constructors of PredefinedGeneratorBase
get_idle_element(length, increment) ==
    Element("idle", length, increment, "0", NoFreq, 0, {})
get_laser_element(length, increment) ==
    Element("laser", length, increment, "0", NoFreq, 0, {laser_channel})
get_laser_gate_element(length, increment) ==
    Element("laser_gate", length, increment, "0", NoFreq, 0,
            {laser_channel, gate_channel})
get_delay_gate_element ==
    Element("delay_gate", "laser_delay", "0", "0", NoFreq, 0, {gate_channel})
get_mw_element(length, increment, amp, freq, phase) ==
    Element("mw", length, increment, amp, freq, phase, {})
get_mw_laser_element(length, increment, amp, freq, phase) ==
    Element("mw_laser", length, increment, amp, freq, phase, {laser_channel})

\* _add_trigger: a sync trigger block joins the ensemble when the context
\* has a sync channel
add_trigger(ensemble, sync) ==
    IF sync THEN Append(ensemble, <<"sync_trigger", 0>>) ELSE ensemble

RECURSIVE Concat(_, _)
\* the concatenation of f[1], ..., f[n]
Concat(f, n) == IF n = 0 THEN <<>> ELSE Concat(f, n - 1) \o f[n]

\* the numbers of sweep points a generator is asked for
PointArgs == 1..MaxPoints

\* a generator returns its block, the ensemble and the information
Generated(op, arg, elements, reps, sync, alternating, number_of_lasers) ==
    /\ call' = [op |-> op, arg |-> arg]
    /\ ret' = 0
    /\ log' = ""
    /\ block' = elements
    /\ block_ensemble' = add_trigger(<<<<op, reps>>>>, sync)
    /\ measurement_information' =
          [alternating |-> alternating, number_of_lasers |-> number_of_lasers]
    /\ UNCHANGED closed

\* one sweep point of generate_podmr_pentacene, lines 36-57
PodmrPoint(i, alternating_no_mw) ==
    LET waiting_element == get_idle_element("wait_time", "0")
        laser_element == get_laser_gate_element("laser_length", "0")
        waiting_afterMW_element == get_idle_element("wait_2_time", "0")
        delay_element == get_delay_gate_element
        mw_element == get_mw_element("rabi_period/2", "0", "microwave_amplitude",
                                     FreqPoint(i), 0)
        no_mw_element == get_mw_element("rabi_period/2", "0", "0",
                                        HalfFreqPoint(i), 0)
    IN <<waiting_element, mw_element, waiting_afterMW_element, laser_element,
         delay_element>>
       \o (IF alternating_no_mw
           THEN <<waiting_element, no_mw_element, waiting_afterMW_element,
                  laser_element, delay_element>>
           ELSE <<>>)

generate_podmr_pentacene(num_of_points, alternating_no_mw, sync) ==
    Generated("generate_podmr_pentacene", <<num_of_points, alternating_no_mw>>,
              Concat([i \in 1..num_of_points |-> PodmrPoint(i, alternating_no_mw)],
                     num_of_points),
              0, sync, alternating_no_mw, num_of_points)

\* one sweep point of generate_fakecwodmr_pentacene, lines 104-122
FakeCwPoint(i, alternating_no_mw) ==
    LET waiting_element == get_idle_element("wait_time", "0")
        delay_element == get_delay_gate_element
        mw_element == get_mw_laser_element("t_single", "0", "microwave_amplitude",
                                           FreqPoint(i), 0)
        no_mw_element == get_mw_laser_element("t_single", "0", "0",
                                              HalfFreqPoint(i), 0)
    IN <<mw_element, delay_element, waiting_element>>
       \o (IF alternating_no_mw
           THEN <<no_mw_element, delay_element, waiting_element>>
           ELSE <<>>)

generate_fakecwodmr_pentacene(num_of_points, alternating_no_mw, sync) ==
    Generated("generate_fakecwodmr_pentacene", <<num_of_points, alternating_no_mw>>,
              Concat([i \in 1..num_of_points |-> FakeCwPoint(i, alternating_no_mw)],
                     num_of_points),
              0, sync, alternating_no_mw, num_of_points)

generate_rabi_pentacene(num_of_points, alternating_no_mw, sync) ==
    LET mw_element == get_mw_element("tau_start", "tau_step", "microwave_amplitude",
                                     Freq("microwave_frequency"), 0)
        noMw_element == get_mw_element("tau_start", "tau_step", "0",
                                       <<"microwave_frequency", 0, 2>>, 0)
        waiting_element == get_idle_element("wait_time", "0")
        waiting_element_after_mw == get_idle_element("wait_2_time", "0")
        laser_element == get_laser_gate_element("laser_length", "0")
        delay_element == get_delay_gate_element
    IN Generated("generate_rabi_pentacene", <<num_of_points, alternating_no_mw>>,
                 <<waiting_element, mw_element, waiting_element_after_mw,
                   laser_element, delay_element>>
                 \o (IF alternating_no_mw
                     THEN <<waiting_element, noMw_element, waiting_element_after_mw,
                            laser_element, delay_element>>
                     ELSE <<>>),
                 num_of_points - 1, sync, alternating_no_mw,
                 IF alternating_no_mw THEN 2 * num_of_points ELSE num_of_points)

\* laser_read_ch and add_gate_ch are channel names or the empty string
generate_rabi_NV_red_read(num_of_points, laser_read_ch, add_gate_ch, sync) ==
    LET mw_element == get_mw_element("tau_start", "tau_step", "microwave_amplitude",
                                     Freq("microwave_frequency"), 0)
        waiting_element == get_idle_element("wait_time", "0")
        gate0 == get_laser_gate_element("laser_length", "0")
        high1 == IF laser_read_ch # ""
                 THEN (gate0.digital_high \ {laser_channel}) \cup {laser_read_ch}
                 ELSE gate0.digital_high
        high2 == IF add_gate_ch # "" THEN high1 \cup {add_gate_ch} ELSE high1
        laser_red_element == [gate0 EXCEPT !.digital_high = high2]
        idle_between_lasers_element == get_idle_element("t_wait_between", "0")
        laser_init_element == get_laser_gate_element("t_laser_init", "0")
        delay_element == get_delay_gate_element
    IN Generated("generate_rabi_NV_red_read",
                 <<num_of_points, laser_read_ch, add_gate_ch>>,
                 <<mw_element, laser_red_element, idle_between_lasers_element,
                   laser_init_element, delay_element, waiting_element>>,
                 num_of_points - 1, sync, FALSE, num_of_points)

generate_t1_pentacene(num_of_points, alternating, sync) ==
    LET waiting_element == get_idle_element("wait_time", "0")
        waiting_element_after_mw == get_idle_element("wait_2_time", "0")
        laser_element == get_laser_gate_element("laser_length", "0")
        delay_element == get_delay_gate_element
        pi_element == get_mw_element("rabi_period/2", "0", "microwave_amplitude",
                                     Freq("microwave_frequency"), 0)
        tau_element == get_idle_element("tau_start", "tau_step")
    IN Generated("generate_t1_pentacene", <<num_of_points, alternating>>,
                 <<tau_element, waiting_element_after_mw, laser_element,
                   delay_element, waiting_element>>
                 \o (IF alternating
                     THEN <<pi_element, tau_element, waiting_element_after_mw,
                            laser_element, delay_element, waiting_element>>
                     ELSE <<>>),
                 num_of_points - 1, sync, alternating,
                 IF alternating THEN 2 * num_of_points ELSE num_of_points)

generate_laser_on_jump(jump_channel, sync) ==
    LET laser_element == get_laser_element("length", "0")
        laser_element_jump ==
            [laser_element EXCEPT !.digital_high = @ \cup {jump_channel}]
        waiting_element == get_idle_element("length/2", "0")
    IN Generated("generate_laser_on_jump", <<jump_channel>>,
                 <<waiting_element, laser_element, laser_element_jump,
                   laser_element, waiting_element>>,
                 0, sync, FALSE, 1)

\* generate_pol_ise_pentacene, lines 412-416: int(t_laser / t_mw_ramp) and the
\* warning, for times in nanoseconds
MwChirps(t_laser, t_mw_ramp) == t_laser \div t_mw_ramp
ChirpWarning(t_laser, t_mw_ramp) ==
    IF t_laser % t_mw_ramp # 0 THEN "Laser not dividable by t_mw." ELSE ""
LaserTimes == {1000, 950}
RampTimes == {100, 300}

\* generate_pol_ise_pentacene: line 423 reads self.self, an attribute no
\* class of the generator defines; the AttributeError ends the call before
\* the block is created
generate_pol_ise_pentacene(t_laser, t_mw_ramp, jump_channel, sync) ==
    /\ call' = [op |-> "generate_pol_ise_pentacene",
                arg |-> <<t_laser, t_mw_ramp, jump_channel>>]
    /\ ret' = Raised
    /\ log' = ChirpWarning(t_laser, t_mw_ramp)
    /\ block' = <<>>
    /\ block_ensemble' = <<>>
    /\ measurement_information' = [alternating |-> FALSE, number_of_lasers |-> 0]
    /\ UNCHANGED closed

AlternatingModes == {"nv_pi_3_2", "pentacene_pi_off", ""}

\* the repetitions of generate_deer_ramsey, lines 497-533; analog: the
\* microwave channel is an analogue channel
DeerElements(analog) ==
    [waiting_element |-> get_idle_element("wait_time", "0"),
     laser_element |-> get_laser_gate_element("laser_length", "0"),
     delay_element |-> get_delay_gate_element,
     pihalf_element |->
         get_mw_element("rabi_period/4", "0", "microwave_amplitude",
                        Freq("microwave_frequency"), 0),
     pi_pentacene_element |->
         get_mw_element("t_rabi_penta/2", "0", "microwave_amplitude",
                        Freq("f_mw_penta"), 0),
     idle_pentacene_element |-> get_idle_element("t_rabi_penta/2", "0"),
     pi3half_element |->
         IF analog
         THEN get_mw_element("rabi_period/4", "0", "microwave_amplitude",
                             Freq("microwave_frequency"), 180)
         ELSE get_mw_element("3*rabi_period/4", "0", "microwave_amplitude",
                             Freq("microwave_frequency"), 0),
     tau_element |-> get_idle_element("tau_start", "tau_step")]

DeerSignal(e) ==
    <<e.pihalf_element, e.pi_pentacene_element, e.tau_element, e.pihalf_element,
      e.laser_element, e.delay_element, e.waiting_element>>

DeerControl(e, alternating_mode) ==
    IF alternating_mode = "nv_pi_3_2"
    THEN <<e.pihalf_element, e.tau_element, e.pi3half_element, e.laser_element,
           e.delay_element, e.waiting_element>>
    ELSE IF alternating_mode = "pentacene_pi_off"
    THEN <<e.pihalf_element, e.tau_element, e.idle_pentacene_element,
           e.pihalf_element, e.laser_element, e.delay_element, e.waiting_element>>
    ELSE <<>>

generate_deer_ramsey(num_of_points, alternating_mode, analog, sync) ==
    LET e == DeerElements(analog)
        alternating == alternating_mode \in {"nv_pi_3_2", "pentacene_pi_off"}
    IN Generated("generate_deer_ramsey", <<num_of_points, alternating_mode, analog>>,
                 DeerSignal(e) \o DeerControl(e, alternating_mode),
                 num_of_points - 1, sync, alternating,
                 IF alternating THEN 2 * num_of_points ELSE num_of_points)

GeneratePodmr ==
    /\ UNCHANGED <<niVars, fctVars, guiVars, rangeVars, consoleVars, readerVars>>
    /\ \E n \in PointArgs, a, sync \in BOOLEAN :
          generate_podmr_pentacene(n, a, sync)
GenerateFakeCwOdmr ==
    /\ UNCHANGED <<niVars, fctVars, guiVars, rangeVars, consoleVars, readerVars>>
    /\ \E n \in PointArgs, a, sync \in BOOLEAN :
          generate_fakecwodmr_pentacene(n, a, sync)
GenerateRabi ==
    /\ UNCHANGED <<niVars, fctVars, guiVars, rangeVars, consoleVars, readerVars>>
    /\ \E n \in PointArgs, a, sync \in BOOLEAN :
          generate_rabi_pentacene(n, a, sync)
GenerateRabiRedRead ==
    /\ UNCHANGED <<niVars, fctVars, guiVars, rangeVars, consoleVars, readerVars>>
    /\ \E n \in PointArgs, r \in {"", "d_ch3"}, g \in {"", "d_ch5"},
          sync \in BOOLEAN : generate_rabi_NV_red_read(n, r, g, sync)
GenerateT1 ==
    /\ UNCHANGED <<niVars, fctVars, guiVars, rangeVars, consoleVars, readerVars>>
    /\ \E n \in PointArgs, a, sync \in BOOLEAN :
          generate_t1_pentacene(n, a, sync)
GenerateLaserOnJump ==
    /\ UNCHANGED <<niVars, fctVars, guiVars, rangeVars, consoleVars, readerVars>>
    /\ \E j \in JumpChannels, sync \in BOOLEAN : generate_laser_on_jump(j, sync)
GeneratePolIse ==
    /\ UNCHANGED <<niVars, fctVars, guiVars, rangeVars, consoleVars, readerVars>>
    /\ \E t \in LaserTimes, r \in RampTimes, j \in JumpChannels,
          sync \in BOOLEAN : generate_pol_ise_pentacene(t, r, j, sync)
GenerateDeerRamsey ==
    /\ UNCHANGED <<niVars, fctVars, guiVars, rangeVars, consoleVars, readerVars>>
    /\ \E n \in PointArgs, m \in AlternatingModes, analog, sync \in BOOLEAN :
          generate_deer_ramsey(n, m, analog, sync)

NextPulses ==
    \/ GeneratePodmr
    \/ GenerateFakeCwOdmr
    \/ GenerateRabi
    \/ GenerateRabiRedRead
    \/ GenerateT1
    \/ GenerateLaserOnJump
    \/ GeneratePolIse
    \/ GenerateDeerRamsey

SpecPulses == InitRegistry /\ [][NextPulses]_vars

(***************************************************************************)
(* C21: every generator with an alternating option (pulsed ODMR, fake      *)
(* CW-ODMR, Rabi, T1, DEER-Ramsey) records number_of_lasers equal to       *)
(* num_of_points when not alternating and to 2 * num_of_points when        *)
(* alternating.                                                            *)
(***************************************************************************)
AlternatingGenerators ==
    {"generate_podmr_pentacene", "generate_fakecwodmr_pentacene",
     "generate_rabi_pentacene", "generate_t1_pentacene", "generate_deer_ramsey"}

C21_NumberOfLasers ==
    (call.op \in AlternatingGenerators /\ ret = 0)
    => measurement_information.number_of_lasers =
          IF measurement_information.alternating
          THEN 2 * call.arg[1] ELSE call.arg[1]

(***************************************************************************)
(* C22: each generator appends exactly one (block, repetition count) pair  *)
(* for its measurement block to the ensemble, with repetition count        *)
(* num_of_points - 1 for Rabi, red-readout Rabi, T1 and DEER-Ramsey and 0  *)
(* for pulsed ODMR, fake CW-ODMR, laser-on-jump and the chirp generator.   *)
(***************************************************************************)
SweepingGenerators ==
    {"generate_rabi_pentacene", "generate_rabi_NV_red_read",
     "generate_t1_pentacene", "generate_deer_ramsey"}
FixedGenerators ==
    {"generate_podmr_pentacene", "generate_fakecwodmr_pentacene",
     "generate_laser_on_jump", "generate_pol_ise_pentacene"}
\* the pairs of the ensemble that name the block of the generator
BlockPairs == {i \in 1..Len(block_ensemble) : block_ensemble[i][1] = call.op}

C22_OnePairPerBlock ==
    (call.op \in SweepingGenerators \cup FixedGenerators)
    => /\ Cardinality(BlockPairs) = 1
       /\ \A i \in BlockPairs :
             block_ensemble[i][2] =
                IF call.op \in SweepingGenerators THEN call.arg[1] - 1 ELSE 0

(***************************************************************************)
(* C23: in generate_deer_ramsey the control repetition of an alternating   *)
(* mode is the signal repetition with exactly one element replaced in      *)
(* place: the final pi/2 by the 3pi/2 element in mode 'nv_pi_3_2', the     *)
(* second-species pi pulse by an idle of the same duration in mode         *)
(* 'pentacene_pi_off'; all other elements and their order are those of the *)
(* signal repetition.                                                      *)
(***************************************************************************)
\* the signal repetition is the first seven elements, the control the rest
C23_Signal == SubSeq(block, 1, 7)
C23_Control == SubSeq(block, 8, Len(block))
\* position of the replaced element in the signal repetition
C23_Replaced == IF call.arg[2] = "nv_pi_3_2" THEN 4 ELSE 2
C23_Replacement ==
    IF call.arg[2] = "nv_pi_3_2"
    THEN DeerElements(call.arg[3]).pi3half_element
    ELSE get_idle_element(C23_Signal[2].length, C23_Signal[2].increment)

C23_ControlRepetition ==
    (call.op = "generate_deer_ramsey" /\ measurement_information.alternating)
    => C23_Control = [C23_Signal EXCEPT ![C23_Replaced] = C23_Replacement]

(***************************************************************************)
(* C24: generate_pol_ise_pentacene returns one block of exactly            *)
(* floor(t_laser / t_mw_ramp) linear-chirp microwave elements with the     *)
(* laser and jump channels asserted, and an ensemble that references the   *)
(* block with repetition count 0.                                          *)
(***************************************************************************)
C24_ChirpBlock ==
    (call.op = "generate_pol_ise_pentacene")
    => /\ ret = 0
       /\ Len(block) = call.arg[1] \div call.arg[2]
       /\ \A i \in 1..Len(block) :
             /\ block[i].kind = "mw_linearchirp"
             /\ {laser_channel, call.arg[3]} \subseteq block[i].digital_high
       /\ Len(block_ensemble) >= 1
       /\ block_ensemble[1] = <<call.op, 0>>

(***************************************************************************)
(* Scanner console (ScannerGui).  The model starts where on_activate has   *)
(* created the axis widgets and the two empty dock dictionaries, and keeps *)
(* of every dock its dictionary key, the areas and tab groups of the main  *)
(* window, and of every 2-D dock the two crosshairs and the selection      *)
(* mode of its plot.  A widget stores the value it is given.               *)
(***************************************************************************)
\* scanninglogic().scanner_axes_names and the values a position takes
ScannerAxes == {"x", "y", "z"}
AxisOrder == <<"x", "y", "z">>
Positions == {0, 1}
\* the entries a 'scan_axes' setting is made of
ScanEntries == {<<"x">>, <<"z">>, <<"x", "y">>, <<"y", "z">>, <<"x", "z">>}
\* id(self), and the caller id of another module
own_id == "self"
CallerIds == {own_id, "logic"}

\* the position dictionaries: axis -> position, for some of the axes
PosDicts(S) == UNION {[A -> Positions] : A \in (SUBSET S) \ {{}}}
\* a notification carries the position of one axis or of all
Notified == {pos_dict \in PosDicts(ScannerAxes) : Cardinality(DOMAIN pos_dict) # 2}

\* dictionary helpers: the keys of an ordered dock dictionary, and the
\* dictionary without one key
DockKeys(docks) == {docks[i].axes : i \in 1..Len(docks)}
DockOf(docks, axes) == docks[CHOOSE i \in 1..Len(docks) : docks[i].axes = axes]
Without(docks, axes) == SelectSeq(docks, LAMBDA dw : dw.axes # axes)

\* the names of the target widgets
SpinboxOf(axis) == <<"pos_spinbox", axis>>
SliderOf(axis) == <<"slider", axis>>
CrosshairOf(axes) == <<"crosshair">> \o axes

\* a crosshair position after set_position for the axes of pos_dict
Moved(axes, position, pos_dict) ==
    <<IF axes[1] \in DOMAIN pos_dict THEN pos_dict[axes[1]] ELSE position[1],
      IF axes[2] \in DOMAIN pos_dict /\ axes[2] # axes[1]
          THEN pos_dict[axes[2]] ELSE position[2]>>

Signal(name, pos_dict, scan_range, caller_id) ==
    [signal |-> name, pos_dict |-> pos_dict, scan_range |-> scan_range,
     caller_id |-> caller_id]

\* ScannerGui.move_scanner_position: the signal it emits
move_scanner_position(target_pos) ==
    Signal("sigMoveScannerPosition", target_pos, EmptyDict, own_id)

\* Whether the handler blocks the signals of a widget while it sets its
\* value (blockSignals(True) ... blockSignals(False) around setValue)
blockSignals_Off == FALSE
blockSignals == TRUE

\* ScannerGui._update_position_display: the 2-D docks after it
_update_position_display(pos_dict) ==
    [i \in 1..Len(scan_2d_dockwidgets) |->
        LET dw == scan_2d_dockwidgets[i]
        IN  [dw EXCEPT !.position = Moved(dw.axes, dw.position, pos_dict)]]

\* ScannerGui._update_target_display: the spin boxes, the sliders and the
\* 2-D docks after it, the widgets it set, and the move requests of the
\* slider slots that a valueChanged signal of a slider set here reaches
_update_target_display(pos_dict, exclude_widget) ==
    LET axes == DOMAIN pos_dict
        setSpinbox == {a \in axes : exclude_widget # SpinboxOf(a)}
        setSlider == {a \in axes : exclude_widget # SliderOf(a)}
        setCrosshair == {i \in 1..Len(scan_2d_dockwidgets) :
                            /\ exclude_widget # CrosshairOf(scan_2d_dockwidgets[i].axes)
                            /\ \E k \in 1..2 : scan_2d_dockwidgets[i].axes[k] \in axes}
        changed == {a \in setSlider : slider[a] # pos_dict[a]}
    IN  [pos_spinbox |-> [a \in ScannerAxes |->
                             IF a \in setSpinbox THEN pos_dict[a] ELSE pos_spinbox[a]],
         slider |-> [a \in ScannerAxes |->
                        IF a \in setSlider THEN pos_dict[a] ELSE slider[a]],
         docks |-> [i \in 1..Len(scan_2d_dockwidgets) |->
                       LET dw == scan_2d_dockwidgets[i]
                       IN  IF i \in setCrosshair
                           THEN [dw EXCEPT !.target = Moved(dw.axes, dw.target, pos_dict)]
                           ELSE dw],
         written |-> {SpinboxOf(a) : a \in setSpinbox}
                     \cup {SliderOf(a) : a \in setSlider}
                     \cup {CrosshairOf(scan_2d_dockwidgets[i].axes) : i \in setCrosshair},
         echo |-> LET order == SelectSeq(AxisOrder, LAMBDA a : a \in changed)
                  IN  IF blockSignals THEN <<>>
                      ELSE [i \in 1..Len(order) |->
                               move_scanner_position([b \in {order[i]} |-> pos_dict[b]])]]

\* scanner_position_updated and scanner_target_updated, lines 808 and 829:
\* the update has been issued by this module
IssuedHere_Never(caller_id) == FALSE
IssuedHere(caller_id) == caller_id = own_id

\* the notifications of the logic
Notification(pos_dict, caller_id) == [pos_dict |-> pos_dict, caller_id |-> caller_id]

\* ScannerGui.scanner_position_updated
scanner_position_updated(pos_dict, caller_id) ==
    /\ Returns("scanner_position_updated", Notification(pos_dict, caller_id), RetNone, "")
    /\ scan_2d_dockwidgets' = IF IssuedHere(caller_id) THEN scan_2d_dockwidgets
                              ELSE _update_position_display(pos_dict)
    /\ emitted' = <<>>
    /\ written' = {}
    /\ constructed' = {}
    /\ UNCHANGED <<closed, scan_1d_dockwidgets, pos_spinbox, slider,
                   action_utility_zoom, mw>>

\* the state after a slot ran _update_target_display and emitted requests
Displayed(shown, requests) ==
    /\ pos_spinbox' = shown.pos_spinbox
    /\ slider' = shown.slider
    /\ scan_2d_dockwidgets' = shown.docks
    /\ written' = shown.written
    /\ constructed' = {}
    /\ emitted' = requests
    /\ UNCHANGED <<closed, scan_1d_dockwidgets, action_utility_zoom, mw>>

\* ScannerGui.scanner_target_updated
scanner_target_updated(pos_dict, caller_id) ==
    /\ Returns("scanner_target_updated", Notification(pos_dict, caller_id), RetNone, "")
    /\ IF IssuedHere(caller_id)
       THEN /\ emitted' = <<>>
            /\ written' = {}
            /\ constructed' = {}
            /\ UNCHANGED <<closed, scan_1d_dockwidgets, scan_2d_dockwidgets, pos_spinbox,
                           slider, action_utility_zoom, mw>>
       ELSE LET shown == _update_target_display(pos_dict, <<>>)
            IN  Displayed(shown, shown.echo)

\* the slot of slider.valueChanged made by __get_slider_update_func: the
\* user has moved the slider of axis ax to x
slider_update_func(ax, x) ==
    LET pos_dict == [a \in {ax} |-> x]
        shown == _update_target_display(pos_dict, SliderOf(ax))
    IN  /\ slider[ax] # x
        /\ Returns("slider_update_func", [widget |-> SliderOf(ax), pos_dict |-> pos_dict],
                   RetNone, "")
        /\ Displayed([shown EXCEPT !.slider[ax] = x],
                     shown.echo \o <<move_scanner_position(pos_dict)>>)

\* the slot of pos_spinbox.editingFinished made by
\* __get_target_spinbox_update_func: the user has entered x in the spin box
\* of axis ax
spinbox_update_func(ax, x) ==
    LET pos_dict == [a \in {ax} |-> x]
        shown == _update_target_display(pos_dict, SpinboxOf(ax))
    IN  /\ Returns("spinbox_update_func", [widget |-> SpinboxOf(ax), pos_dict |-> pos_dict],
                   RetNone, "")
        /\ Displayed([shown EXCEPT !.pos_spinbox[ax] = x],
                     shown.echo \o <<move_scanner_position(pos_dict)>>)

\* the slot of crosshairs[0].sigDraggedPosChanged made by
\* __get_crosshair_update_func: the user has dragged the target crosshair of
\* the 2-D dock of ax to (x, y)
crosshair_update_func(ax, x, y) ==
    LET pos_dict == [a \in {ax[1], ax[2]} |-> IF a = ax[2] THEN y ELSE x]
        shown == _update_target_display(pos_dict, CrosshairOf(ax))
        dragged == [i \in 1..Len(shown.docks) |->
                       IF shown.docks[i].axes = ax
                       THEN [shown.docks[i] EXCEPT !.target = <<x, y>>]
                       ELSE shown.docks[i]]
    IN  /\ ax \in DockKeys(scan_2d_dockwidgets)
        /\ Returns("crosshair_update_func",
                   [widget |-> CrosshairOf(ax), pos_dict |-> pos_dict], RetNone, "")
        /\ Displayed([shown EXCEPT !.docks = dragged],
                     shown.echo \o <<move_scanner_position(pos_dict)>>)

\* the static docks of the main window
optimizer_dockwidget == <<"optimizer_dockwidget">>
scanner_control_dockwidget == <<"scanner_control_dockwidget">>
tilt_correction_dockwidget == <<"tilt_correction_dockwidget">>
StaticDocks == {optimizer_dockwidget, scanner_control_dockwidget,
                tilt_correction_dockwidget}

\* QMainWindow.removeDockWidget, addDockWidget and tabifyDockWidget on the
\* layout m: dock -> its area and the docks of its tab group
removeDockWidget(m, dock) ==
    [k \in DOMAIN m \ {dock} |-> [m[k] EXCEPT !.tabs = @ \ {dock}]]
addDockWidget(m, area, dock) ==
    [k \in DOMAIN m \cup {dock} |->
        IF k = dock THEN [area |-> area, tabs |-> {dock}]
        ELSE [m[k] EXCEPT !.tabs = @ \ {dock}]]
tabifyDockWidget(m, first, second) ==
    LET group == (m[first].tabs \ {second}) \cup {first, second}
    IN  [k \in DOMAIN m |->
            IF k \in group THEN [area |-> m[first].area, tabs |-> group]
            ELSE [m[k] EXCEPT !.tabs = @ \ {second}]]

\* the dock dictionaries and the layout when a slot starts; it has
\* constructed no dock yet
DockState == [d1 |-> scan_1d_dockwidgets, d2 |-> scan_2d_dockwidgets,
              mw |-> mw, constructed |-> {}]

\* docks[axes] = dockwidget on an ordered dictionary
PutDock(docks, dw) ==
    IF dw.axes \in DockKeys(docks)
    THEN [i \in 1..Len(docks) |-> IF docks[i].axes = dw.axes THEN dw ELSE docks[i]]
    ELSE Append(docks, dw)

\* ScannerGui._remove_scan_dockwidget
_remove_scan_dockwidget(st, axes) ==
    IF axes \in DockKeys(st.d1)
    THEN [st EXCEPT !.d1 = Without(@, axes), !.mw = removeDockWidget(@, axes)]
    ELSE IF axes \in DockKeys(st.d2)
    THEN [st EXCEPT !.d2 = Without(@, axes), !.mw = removeDockWidget(@, axes)]
    ELSE st

\* ScannerGui._add_scan_dockwidget: a new dock; its crosshairs are at the
\* origin and the selection mode of its plot is off
_add_scan_dockwidget(st, axes) ==
    IF Len(axes) = 1
    THEN [st EXCEPT !.d1 = PutDock(@, [axes |-> axes]),
                    !.mw = addDockWidget(@, "top", axes),
                    !.constructed = @ \cup {axes}]
    ELSE [st EXCEPT !.d2 = PutDock(@, [axes |-> axes, target |-> <<0, 0>>,
                                       position |-> <<0, 0>>, selection |-> FALSE]),
                    !.mw = addDockWidget(@, "top", axes),
                    !.constructed = @ \cup {axes}]

RECURSIVE RemoveKeys(_, _)
RemoveKeys(st, keys) ==
    IF keys = {} THEN st
    ELSE LET key == CHOOSE k \in keys : TRUE
         IN  RemoveKeys(_remove_scan_dockwidget(st, key), keys \ {key})

RECURSIVE AddKeys(_, _)
AddKeys(st, keys) ==
    IF keys = <<>> THEN st
    ELSE AddKeys(_add_scan_dockwidget(st, Head(keys)), Tail(keys))

\* update_scanner_settings, line 784: the entries without a dock yet
KeysToAdd_All(scan_axes, present_keys) == scan_axes
KeysToAdd(scan_axes, present_keys) ==
    SelectSeq(scan_axes, LAMBDA key : key \notin present_keys)

\* ScannerGui.update_scanner_settings, lines 774-786, for a settings
\* dictionary whose only key is 'scan_axes'
ScanAxesUpdate(scan_axes) ==
    LET present_keys == DockKeys(scan_1d_dockwidgets) \cup DockKeys(scan_2d_dockwidgets)
        keys_to_delete == present_keys \ {scan_axes[i] : i \in 1..Len(scan_axes)}
        keys_to_add == KeysToAdd(scan_axes, present_keys)
    IN  AddKeys(RemoveKeys(DockState, keys_to_delete), keys_to_add)

update_scanner_settings(settings) ==
    LET st == ScanAxesUpdate(settings.scan_axes)
    IN  /\ Returns("update_scanner_settings", settings, RetNone, "")
        /\ scan_1d_dockwidgets' = st.d1
        /\ scan_2d_dockwidgets' = st.d2
        /\ mw' = st.mw
        /\ constructed' = st.constructed
        /\ emitted' = <<>>
        /\ written' = {}
        /\ UNCHANGED <<closed, pos_spinbox, slider, action_utility_zoom>>

\* ScannerGui.toggle_cursor_zoom: the 2-D docks after it (the zoom action is
\* checked exactly if enable)
toggle_selection(enable) ==
    [i \in 1..Len(scan_2d_dockwidgets) |->
        [scan_2d_dockwidgets[i] EXCEPT !.selection = enable]]

toggle_cursor_zoom(enable) ==
    /\ Returns("toggle_cursor_zoom", enable, RetNone, "")
    /\ action_utility_zoom' = enable
    /\ scan_2d_dockwidgets' = toggle_selection(enable)
    /\ emitted' = <<>>
    /\ written' = {}
    /\ constructed' = {}
    /\ UNCHANGED <<closed, scan_1d_dockwidgets, pos_spinbox, slider, mw>>

\* action_utility_zoom.setChecked, line 991: the 2-D docks after it.  A
\* change of the checked state emits toggled, which runs toggle_cursor_zoom.
setChecked_Silent(checked) == scan_2d_dockwidgets
setChecked(checked) ==
    IF action_utility_zoom # checked THEN toggle_selection(checked)
    ELSE scan_2d_dockwidgets

\* the rectangles of a selection: left, right, top, bottom
Rectangles == {[left |-> 0, right |-> 1, top |-> 1, bottom |-> 0],
               [left |-> 1, right |-> 0, top |-> 0, bottom |-> 0]}

\* the slot of plot_widget.sigMouseAreaSelected made by
\* __get_range_from_selection_func for the 2-D dock of ax
set_range_func(ax, qrect) ==
    LET scan_range == [a \in {ax[1], ax[2]} |->
                          IF a = ax[2]
                          THEN <<Min(qrect.top, qrect.bottom), Max(qrect.top, qrect.bottom)>>
                          ELSE <<Min(qrect.left, qrect.right), Max(qrect.left, qrect.right)>>]
    IN  /\ ax \in DockKeys(scan_2d_dockwidgets)
        /\ Returns("set_range_func", [axes |-> ax, qrect |-> qrect], RetNone, "")
        /\ emitted' = <<Signal("sigScannerSettingsChanged", EmptyDict, scan_range, "")>>
        /\ action_utility_zoom' = FALSE
        /\ scan_2d_dockwidgets' = setChecked(FALSE)
        /\ written' = {}
        /\ constructed' = {}
        /\ UNCHANGED <<closed, scan_1d_dockwidgets, pos_spinbox, slider, mw>>

\* restore_default_view, lines 574-587: the layout after one of the two
\* loops; a dock whose index (from 0) is above `last` is tabified onto the
\* first dock of the dictionary
RECURSIVE ArrangeDocks(_, _, _, _)
ArrangeDocks(m, docks, i, last) ==
    IF i > Len(docks) THEN m
    ELSE LET added == addDockWidget(m, "top", docks[i].axes)
         IN  ArrangeDocks(IF i - 1 > last
                          THEN tabifyDockWidget(added, docks[1].axes, docks[i].axes)
                          ELSE added,
                          docks, i + 1, last)

\* ScannerGui.restore_default_view.  The last branch, lines 615-618, takes
\* the first 2-D dock of an empty dictionary when there is no scan dock.
restore_default_view ==
    LET scans == ArrangeDocks(ArrangeDocks(mw, scan_2d_dockwidgets, 1, 1),
                              scan_1d_dockwidgets, 1, 0)
        top == addDockWidget(scans, "top", optimizer_dockwidget)
        raises == scan_1d_dockwidgets = <<>> /\ scan_2d_dockwidgets = <<>>
    IN  /\ Returns("restore_default_view", NoneArg, IF raises THEN Raised ELSE RetNone, "")
        /\ mw' = IF raises THEN top
                 ELSE addDockWidget(addDockWidget(top, "bottom", scanner_control_dockwidget),
                                    "bottom", tilt_correction_dockwidget)
        /\ emitted' = <<>>
        /\ written' = {}
        /\ constructed' = {}
        /\ UNCHANGED <<closed, scan_1d_dockwidgets, scan_2d_dockwidgets, pos_spinbox,
                       slider, action_utility_zoom>>
\* the 'scan_axes' settings: some of the entries, none twice, in the order
\* of ScanOrder or in the opposite order
ScanOrder == <<<<"x">>, <<"z">>, <<"x", "y">>, <<"y", "z">>, <<"x", "z">>>>
Reversed(seq) == [i \in 1..Len(seq) |-> seq[Len(seq) + 1 - i]]
ScanSettings(E) ==
    {[scan_axes |-> SelectSeq(order, LAMBDA e : e \in S)] :
        S \in SUBSET E, order \in {ScanOrder, Reversed(ScanOrder)}}
AllScanSettings == ScanSettings(ScanEntries)
PairScanSettings == ScanSettings({<<"x", "y">>, <<"y", "z">>})

ScannerPositionUpdated ==
    /\ UNCHANGED <<niVars, fctVars, guiVars, pulseVars, rangeVars, readerVars>>
    /\ \E pos_dict \in Notified, caller_id \in CallerIds :
          scanner_position_updated(pos_dict, caller_id)

ScannerTargetUpdated ==
    /\ UNCHANGED <<niVars, fctVars, guiVars, pulseVars, rangeVars, readerVars>>
    /\ \E pos_dict \in Notified, caller_id \in CallerIds :
          scanner_target_updated(pos_dict, caller_id)

SliderMoved ==
    /\ UNCHANGED <<niVars, fctVars, guiVars, pulseVars, rangeVars, readerVars>>
    /\ \E ax \in ScannerAxes, x \in Positions : slider_update_func(ax, x)

SpinboxEdited ==
    /\ UNCHANGED <<niVars, fctVars, guiVars, pulseVars, rangeVars, readerVars>>
    /\ \E ax \in ScannerAxes, x \in Positions : spinbox_update_func(ax, x)

CrosshairDragged ==
    /\ UNCHANGED <<niVars, fctVars, guiVars, pulseVars, rangeVars, readerVars>>
    /\ \E ax \in ScanEntries, x \in Positions, y \in Positions :
          crosshair_update_func(ax, x, y)

UpdateScannerSettings(S) ==
    /\ UNCHANGED <<niVars, fctVars, guiVars, pulseVars, rangeVars, readerVars>>
    /\ \E settings \in S : update_scanner_settings(settings)

ToggleCursorZoom ==
    /\ UNCHANGED <<niVars, fctVars, guiVars, pulseVars, rangeVars, readerVars>>
    /\ \E enable \in BOOLEAN : toggle_cursor_zoom(enable)

AreaSelected ==
    /\ UNCHANGED <<niVars, fctVars, guiVars, pulseVars, rangeVars, readerVars>>
    /\ \E ax \in ScanEntries, qrect \in Rectangles : set_range_func(ax, qrect)

RestoreDefaultView ==
    /\ UNCHANGED <<niVars, fctVars, guiVars, pulseVars, rangeVars, readerVars>>
    /\ restore_default_view

\* the position and target displays, with the docks of two axis pairs
NextTarget ==
    \/ UpdateScannerSettings(PairScanSettings)
    \/ ScannerPositionUpdated
    \/ ScannerTargetUpdated
    \/ SliderMoved
    \/ SpinboxEdited
    \/ CrosshairDragged

SpecTarget == InitRegistry /\ [][NextTarget]_vars

\* the scan docks, their layout and the selection tool
NextDocks ==
    \/ UpdateScannerSettings(AllScanSettings)
    \/ ToggleCursorZoom
    \/ AreaSelected
    \/ RestoreDefaultView

SpecDocks == InitRegistry /\ [][NextDocks]_vars

(***************************************************************************)
(* C26: a position-update or target-update notification whose caller id is *)
(* the console's own id changes no widget of the console; a notification   *)
(* with any other caller id sets the displayed position (the position      *)
(* crosshair of every 2-D dock with a notified axis) or the displayed      *)
(* target (spin box, slider and target crosshairs of the notified axes) to *)
(* the notified values.                                                    *)
(***************************************************************************)
C26_Widgets == <<scan_1d_dockwidgets, scan_2d_dockwidgets, pos_spinbox, slider,
                 action_utility_zoom, mw>>

\* the crosshair `mark` of every 2-D dock shows the notified values
C26_Shown(docks, mark, pos_dict) ==
    \A i \in 1..Len(docks) : \A k \in 1..2 :
        docks[i].axes[k] \in DOMAIN pos_dict
        => docks[i][mark][k] = pos_dict[docks[i].axes[k]]

C26_Step ==
    /\ (call'.op \in {"scanner_position_updated", "scanner_target_updated"}
        /\ call'.arg.caller_id = own_id)
       => (UNCHANGED C26_Widgets /\ written' = {} /\ emitted' = <<>>)
    /\ (call'.op = "scanner_position_updated" /\ call'.arg.caller_id # own_id)
       => C26_Shown(scan_2d_dockwidgets', "position", call'.arg.pos_dict)
    /\ (call'.op = "scanner_target_updated" /\ call'.arg.caller_id # own_id)
       => /\ C26_Shown(scan_2d_dockwidgets', "target", call'.arg.pos_dict)
          /\ \A a \in DOMAIN call'.arg.pos_dict :
                /\ pos_spinbox'[a] = call'.arg.pos_dict[a]
                /\ slider'[a] = call'.arg.pos_dict[a]

C26_OwnNotificationsIgnored == [][C26_Step]_vars

\* a target notification of the console itself arrived while the console
\* shows another target: the user had moved the slider of an axis of a 2-D
\* dock, and the notification carries the old value
C26_Witness ==
    /\ call.op = "scanner_target_updated"
    /\ call.arg.caller_id = own_id
    /\ \E a \in DOMAIN call.arg.pos_dict :
          /\ slider[a] # call.arg.pos_dict[a]
          /\ \E i \in 1..Len(scan_2d_dockwidgets) : scan_2d_dockwidgets[i].axes[1] = a

(***************************************************************************)
(* C27: when the user moves a slider, edits a position spin box or drags a *)
(* target crosshair, the handler sets every other target widget of the     *)
(* affected axes to the new value, never sets the value of the originating *)
(* widget, and emits exactly one move request tagged with the console's    *)
(* own id; the mirrored widget updates trigger no further move requests.   *)
(***************************************************************************)
C27_Gestures == {"slider_update_func", "spinbox_update_func", "crosshair_update_func"}

\* the target widgets of the axes of pos_dict
C27_TargetWidgets(docks, pos_dict) ==
    {SpinboxOf(a) : a \in DOMAIN pos_dict}
    \cup {SliderOf(a) : a \in DOMAIN pos_dict}
    \cup {CrosshairOf(docks[i].axes) :
             i \in {j \in 1..Len(docks) :
                       \E k \in 1..2 : docks[j].axes[k] \in DOMAIN pos_dict}}

C27_Step ==
    call'.op \in C27_Gestures
    => LET pos_dict == call'.arg.pos_dict
           docks == scan_2d_dockwidgets'
       IN  /\ written' = C27_TargetWidgets(docks, pos_dict) \ {call'.arg.widget}
           /\ \A a \in DOMAIN pos_dict :
                 /\ pos_spinbox'[a] = pos_dict[a]
                 /\ slider'[a] = pos_dict[a]
                 /\ \A i \in 1..Len(docks) : \A k \in 1..2 :
                       docks[i].axes[k] = a => docks[i].target[k] = pos_dict[a]
           /\ Len(emitted') = 1
           /\ emitted'[1].signal = "sigMoveScannerPosition"
           /\ emitted'[1].pos_dict = pos_dict
           /\ emitted'[1].caller_id = own_id

C27_GestureMirrored == [][C27_Step]_vars

\* the user has entered a new value in a position spin box whose axis
\* belongs to two 2-D docks: the slider and both crosshairs follow, and
\* the slider had another value before
C27_Witness ==
    /\ call.op = "spinbox_update_func"
    /\ call.arg.pos_dict = [a \in {"y"} |-> 1]
    /\ written = {SliderOf("y"), CrosshairOf(<<"x", "y">>), CrosshairOf(<<"y", "z">>)}
    /\ Len(emitted) = 1

(***************************************************************************)
(* C28: after the console processes a settings update that contains        *)
(* 'scan_axes', the set of existing scan docks (1-D docks for single-axis  *)
(* entries, 2-D docks for axis pairs) equals exactly the set of entries of *)
(* that setting, and the docks of entries that were already present are    *)
(* kept rather than recreated.                                             *)
(***************************************************************************)
C28_Entries(settings) == {settings.scan_axes[i] : i \in 1..Len(settings.scan_axes)}

\* the dock of key is the same object with the same content before and after
C28_Kept(key) ==
    /\ key \notin constructed'
    /\ key \in DockKeys(scan_1d_dockwidgets)
       => DockOf(scan_1d_dockwidgets', key) = DockOf(scan_1d_dockwidgets, key)
    /\ key \in DockKeys(scan_2d_dockwidgets)
       => DockOf(scan_2d_dockwidgets', key) = DockOf(scan_2d_dockwidgets, key)

C28_Step ==
    (call'.op = "update_scanner_settings" /\ "scan_axes" \in DOMAIN call'.arg)
    => LET entries == C28_Entries(call'.arg)
       IN  /\ DockKeys(scan_1d_dockwidgets') = {e \in entries : Len(e) = 1}
           /\ DockKeys(scan_2d_dockwidgets') = {e \in entries : Len(e) = 2}
           /\ Len(scan_1d_dockwidgets') = Cardinality(DockKeys(scan_1d_dockwidgets'))
           /\ Len(scan_2d_dockwidgets') = Cardinality(DockKeys(scan_2d_dockwidgets'))
           /\ DOMAIN mw' \ StaticDocks = entries
           /\ \A key \in entries \cap (DockKeys(scan_1d_dockwidgets)
                                       \cup DockKeys(scan_2d_dockwidgets)) :
                 C28_Kept(key)

C28_DocksFollowScanAxes == [][C28_Step]_vars

\* a settings update that constructed a dock and kept a 2-D dock whose
\* plot is in selection mode
C28_Witness ==
    /\ call.op = "update_scanner_settings"
    /\ constructed # {}
    /\ \E i \in 1..Len(scan_2d_dockwidgets) :
          /\ scan_2d_dockwidgets[i].selection
          /\ scan_2d_dockwidgets[i].axes \notin constructed

(***************************************************************************)
(* C29: when a rectangle selection completes on any 2-D scan plot, the     *)
(* console emits one scan-range settings change carrying (min, max) of the *)
(* rectangle for both axes of that plot, and afterwards the zoom/selection *)
(* tool is unchecked and selection is disabled on every 2-D plot.          *)
(***************************************************************************)
C29_Range(a, b) == IF a <= b THEN <<a, b>> ELSE <<b, a>>

C29_Step ==
    call'.op = "set_range_func"
    => LET ax == call'.arg.axes
           qrect == call'.arg.qrect
       IN  /\ Len(emitted') = 1
           /\ emitted'[1].signal = "sigScannerSettingsChanged"
           /\ DOMAIN emitted'[1].scan_range = {ax[1], ax[2]}
           /\ emitted'[1].scan_range[ax[1]] = C29_Range(qrect.left, qrect.right)
           /\ emitted'[1].scan_range[ax[2]] = C29_Range(qrect.top, qrect.bottom)
           /\ ~action_utility_zoom'
           /\ \A i \in 1..Len(scan_2d_dockwidgets') : ~scan_2d_dockwidgets'[i].selection

C29_SelectionSetsRange == [][C29_Step]_vars

\* a selection drawn from right to left completed on one of several 2-D
\* plots
C29_Witness ==
    /\ call.op = "set_range_func"
    /\ call.arg.qrect.left > call.arg.qrect.right
    /\ Len(scan_2d_dockwidgets) > 1
    /\ Len(emitted) = 1

(***************************************************************************)
(* C30: for every number of 1-D and 2-D scan docks, including zero,        *)
(* restore_default_view completes and leaves all 2-D docks in a single tab *)
(* group and all 1-D docks in a single tab group in the top area.          *)
(***************************************************************************)
\* the docks of one dictionary are in the top area and share one tab group
C30_OneTabGroup(layout, docks) ==
    \A a \in DockKeys(docks) :
        /\ a \in DOMAIN layout
        /\ layout[a].area = "top"
        /\ DockKeys(docks) \subseteq layout[a].tabs

C30_Step ==
    call'.op = "restore_default_view"
    => /\ ret' # Raised
       /\ C30_OneTabGroup(mw', scan_2d_dockwidgets')
       /\ C30_OneTabGroup(mw', scan_1d_dockwidgets')

C30_DefaultViewTabbed == [][C30_Step]_vars

(***************************************************************************)
(* C31: toggling 'use maximal resolution' on in the cavity console         *)
(* disables the manual resolution control and forces recomputation of the  *)
(* scan resolution from the maximum-resolution formula for the current     *)
(* start/end span.                                                         *)
(***************************************************************************)
C31_Step ==
    (call'.op = "toggle_scan_resolution" /\ max_scan_resolution_checkBox')
    => /\ ~enabled'["scan_resolution_spinBox"]
       /\ scan_resolution'
             = calculate_resolution(16, <<Min(start_voltage', end_voltage'),
                                          Max(start_voltage', end_voltage')>>)

C31_MaximalResolutionForced == [][C31_Step]_vars

(***************************************************************************)
(* C37: in the cavity console, after any sequence of user actions (start,  *)
(* stop, stabilize, stop-stabilize, toggling the check box) and            *)
(* scan-finished notifications, the manual resolution spin box is disabled *)
(* whenever the 'use maximal resolution' box is checked.                   *)
(***************************************************************************)
C37_ManualResolutionLocked ==
    max_scan_resolution_checkBox => ~enabled["scan_resolution_spinBox"]

(***************************************************************************)
(* C38: in the cavity console, after any sequence of start-voltage,        *)
(* end-voltage and resolution edits, the logic's stored scan resolution is *)
(* never below the maximal resolution computed for the current start/end   *)
(* span.                                                                   *)
(***************************************************************************)
C38_StoredResolutionAtLeastMaximal == scan_resolution >= maximal_scan_resolution

(***************************************************************************)
(* C32: after any sequence of set_up_clock_new, add_clock_task_to_channel  *)
(* and close_clock_new calls, including calls that are rejected or fail in *)
(* the hardware, the task, channel and frequency maps of the generalized   *)
(* registry have the same key set (apart from the fixed-role entries       *)
(* 'Scanner' and 'Counter' of the channel map), so every channel recorded  *)
(* as bound belongs to a name whose task close_clock_new can release.      *)
(***************************************************************************)
C32_SameKeys ==
    /\ DOMAIN clock_frequency_new = DOMAIN clock_daq_task_new
    /\ (DOMAIN clock_channel_new) \ {"Scanner", "Counter"} = DOMAIN clock_daq_task_new

(***************************************************************************)
(* C33: in every state reachable through set_up_finite_counter_clock,      *)
(* close_finite_counter_clock, close_clock_new and close_clock(scanner=    *)
(* True), the fixed-role scanner-clock handle is set exactly when the      *)
(* registry holds a 'Scanner_clock' entry for the same, still open task:   *)
(* no close path leaves the handle pointing at a cleared task or leaves a  *)
(* 'Scanner_clock' entry for a cleared task.                               *)
(***************************************************************************)
C33_ScannerClockAliased ==
    (scanner_clock_daq_task # None)
        <=> /\ "Scanner_clock" \in DOMAIN clock_daq_task_new
            /\ clock_daq_task_new["Scanner_clock"] = scanner_clock_daq_task
            /\ Live(scanner_clock_daq_task)

(***************************************************************************)
(* C34: get_status reports 3 (paused) only while the most recent of        *)
(* start_measure, stop_measure, pause_measure and continue_measure was     *)
(* pause_measure: once continue_measure or start_measure has returned and  *)
(* the card stops by itself (GetStatusData reads started = 0), get_status  *)
(* reports 1 (idle), not 3.                                                *)
(***************************************************************************)
C34_PausedOnlyAfterPause ==
    (call.op \in {"start_measure", "continue_measure"} /\ pc = "idle" /\ ret = 0)
        => StatusOf(0) = 1

(***************************************************************************)
(* C35: whenever scan_line returns, with data or with the error sentinel,  *)
(* the scanner analogue-output task is back in on-demand timing and any    *)
(* pixel-clock terminal connection made by the call has been disconnected, *)
(* so that a following scanner_set_position writes its position            *)
(* immediately.                                                            *)
(***************************************************************************)
C35_Step ==
    (call'.op = "scan_line" /\ ao_timing_type = "OnDemand" /\ ~pixel_clock_connected)
        => (ao_timing_type' = "OnDemand" /\ ~pixel_clock_connected')

C35_LineLeavesOnDemand == [][C35_Step]_vars

(***************************************************************************)
(* Analogue voltage reader.  hwReader holds the reader tasks that exist on *)
(* the card and whether each is started.                                   *)
(***************************************************************************)
\* the a_i_channels of a configuration with two reader channels
analogue_input_channels == {"ai0", "ai1"}
\* channel names offered to the reader methods: the configured ones and one
\* that is not configured
ReaderArgs == analogue_input_channels \cup {"ai2"}
ReaderTaskIds == 1..MaxTasks

\* set_up_analogue_voltage_reader(analogue_channel), lines 2615-2668; hw is
\* the outcome of the DAQmx calls, which raise before the task is stored
set_up_analogue_voltage_reader(analogue_channel, hw) ==
    LET op(r, msg) == Returns("set_up_analogue_voltage_reader", analogue_channel, r, msg)
        task == CHOOSE t \in ReaderTaskIds :
                    /\ t \notin DOMAIN hwReader
                    /\ \A u \in ReaderTaskIds : u \notin DOMAIN hwReader => t <= u
    IN
    /\ UNCHANGED analogue_input_started
    /\ IF analogue_channel \notin analogue_input_channels
       THEN /\ op(-1, "The given analogue input channel is not defined.")
            /\ UNCHANGED <<analogue_input_daq_tasks, hwReader>>
       ELSE IF analogue_channel \in DOMAIN analogue_input_daq_tasks
       THEN /\ op(-1, "The same analogue input task is already running, close this one first.")
            /\ UNCHANGED <<analogue_input_daq_tasks, hwReader>>
       ELSE IF hw # "ok"
       THEN /\ op(-1, "Error while setting up analogue voltage reader for channel")
            /\ UNCHANGED <<analogue_input_daq_tasks, hwReader>>
       ELSE /\ ReaderTaskIds \ DOMAIN hwReader # {}
            /\ analogue_input_daq_tasks' = Put(analogue_input_daq_tasks, analogue_channel, task)
            /\ hwReader' = Put(hwReader, task, FALSE)
            /\ op(0, "")

\* start_analogue_voltage_reader(analogue_channel, start_clock), lines
\* 2991-3033; hw is the outcome of DAQmxStartTask on the reader task
start_analogue_voltage_reader(analogue_channel, start_clock, hw) ==
    LET op(r, msg) == Returns("start_analogue_voltage_reader", analogue_channel, r, msg)
    IN
    /\ UNCHANGED analogue_input_daq_tasks
    \* line 3002: one flag for all channels
    /\ IF analogue_input_started
       THEN /\ op(0, "")
            /\ UNCHANGED <<analogue_input_started, hwReader>>
       ELSE IF analogue_channel \notin DOMAIN analogue_input_daq_tasks
       THEN /\ op(-1, "Cannot start analogue voltage reader since it is not configured!")
            /\ UNCHANGED <<analogue_input_started, hwReader>>
       \* the clock of the channel is read from the registry inside the try
       \* block: KeyError, or DAQmxStartTask on a cleared task, is caught
       ELSE IF start_clock /\ ~(/\ analogue_channel \in DOMAIN clock_daq_task_new
                                /\ Live(clock_daq_task_new[analogue_channel]))
       THEN /\ op(-1, "Error while starting up analogue voltage reader clock")
            /\ UNCHANGED <<analogue_input_started, hwReader>>
       ELSE IF hw # "ok"
       THEN /\ op(-1, "Error while starting up analogue voltage reader.")
            /\ UNCHANGED <<analogue_input_started, hwReader>>
       ELSE /\ hwReader' = Put(hwReader, analogue_input_daq_tasks[analogue_channel], TRUE)
            /\ analogue_input_started' = TRUE
            /\ op(0, "")

\* stop_analogue_voltage_reader(analogue_channel), lines 3138-3154
stop_analogue_voltage_reader(analogue_channel, hw) ==
    LET op(r, msg) == Returns("stop_analogue_voltage_reader", analogue_channel, r, msg)
    IN
    /\ UNCHANGED analogue_input_daq_tasks
    /\ IF analogue_channel \notin DOMAIN analogue_input_daq_tasks
       THEN /\ op(-1, "Cannot stop Analogue Input Reader Task since it is not running or configured!")
            /\ UNCHANGED <<analogue_input_started, hwReader>>
       ELSE IF hw # "ok"
       THEN /\ op(-1, "Error while stopping analogue reader for channel")
            /\ UNCHANGED <<analogue_input_started, hwReader>>
       ELSE /\ hwReader' = Put(hwReader, analogue_input_daq_tasks[analogue_channel], FALSE)
            /\ analogue_input_started' = FALSE
            /\ op(0, "")

SetUpAnalogueVoltageReader ==
    /\ UNCHANGED <<niVars, fctVars, guiVars, pulseVars, rangeVars, consoleVars>>
    /\ closed' = {}
    /\ \E analogue_channel \in ReaderArgs, hw \in CloseOutcome :
           set_up_analogue_voltage_reader(analogue_channel, hw)

StartAnalogueVoltageReader ==
    /\ UNCHANGED <<niVars, fctVars, guiVars, pulseVars, rangeVars, consoleVars>>
    /\ closed' = {}
    /\ \E analogue_channel \in ReaderArgs, start_clock \in BOOLEAN, hw \in CloseOutcome :
           start_analogue_voltage_reader(analogue_channel, start_clock, hw)

StopAnalogueVoltageReader ==
    /\ UNCHANGED <<niVars, fctVars, guiVars, pulseVars, rangeVars, consoleVars>>
    /\ closed' = {}
    /\ \E analogue_channel \in ReaderArgs, hw \in CloseOutcome :
           stop_analogue_voltage_reader(analogue_channel, hw)

NextReader ==
    \/ SetUpAnalogueVoltageReader
    \/ StartAnalogueVoltageReader
    \/ StopAnalogueVoltageReader

SpecReader == InitRegistry /\ [][NextReader]_vars

(***************************************************************************)
(* C36: start_analogue_voltage_reader(channel) returns 0 only if the task  *)
(* configured for that channel is started when the call returns; with two  *)
(* independently configured reader channels, starting the second while the *)
(* first is started returns 0 only if the second channel's task has been   *)
(* started too.                                                            *)
(***************************************************************************)
C36_Step ==
    (call'.op = "start_analogue_voltage_reader" /\ ret' = 0)
        => /\ call'.arg \in DOMAIN analogue_input_daq_tasks'
           /\ hwReader'[analogue_input_daq_tasks'[call'.arg]]

C36_StartedWhenZero == [][C36_Step]_vars

(***************************************************************************)
(* _scanner_position_to_volt in floating point.  The ranges of the         *)
(* configuration and the positions are Python floats: binary numbers       *)
(* m * 2^e whose significand has a fixed number of bits, every operation   *)
(* rounded to the nearest such number, ties to the even significand.       *)
(* CPython's float has 53 bits; the model keeps Precision bits.            *)
(***************************************************************************)
Precision == 5

Abs(n) == IF n < 0 THEN -n ELSE n
Sign(n) == IF n < 0 THEN -1 ELSE 1
\* the number of bits of a natural number
BitLength(a) == CHOOSE k \in 0..30 : a < 2^k /\ (k = 0 \/ a >= 2^(k - 1))

RECURSIVE Float(_, _)
\* the float m * 2^e, in its form with an odd significand
Float(m, e) ==
    IF m = 0 THEN [m |-> 0, e |-> 0]
    ELSE IF m % 2 = 0 THEN Float(m \div 2, e + 1)
    ELSE [m |-> m, e |-> e]

\* n * 2^e rounded to Precision bits, ties to even
Round(n, e) ==
    LET a == Abs(n)
        k == BitLength(a) - Precision
        q == a \div 2^k
        r == a % 2^k
        up == r > 2^(k - 1) \/ (r = 2^(k - 1) /\ q % 2 = 1)
    IN IF k <= 0 THEN Float(n, e)
       ELSE Float(Sign(n) * (IF up THEN q + 1 ELSE q), e + k)

\* float + float, float - float, float * float
fadd(x, y) ==
    LET e0 == Min(x.e, y.e)
    IN Round(x.m * 2^(x.e - e0) + y.m * 2^(y.e - e0), e0)
fsub(x, y) == fadd(x, [m |-> -y.m, e |-> y.e])
fmul(x, y) == Round(x.m * y.m, x.e + y.e)
\* float / float for y # 0: the quotient with guard bits and a sticky bit
fdiv(x, y) ==
    LET G == 2 * Precision + 2
        scaled == Abs(x.m) * 2^G
        q == scaled \div Abs(y.m)
        sticky == IF scaled % Abs(y.m) = 0 THEN 0 ELSE 1
    IN Round(Sign(x.m) * Sign(y.m) * (2 * q + sticky), x.e - y.e - G - 1)
\* float < float
flt(x, y) ==
    LET e0 == Min(x.e, y.e)
    IN x.m * 2^(x.e - e0) < y.m * 2^(y.e - e0)

\* the failure value np.array([np.NaN])
NaNArray == <<"NaN">>

\* _scanner_position_to_volt(positions), lines 1207-1239, with the
\* ConfigOptions scanner_voltage_ranges and scanner_position_ranges it reads
_scanner_position_to_volt(positions, voltage_ranges, position_ranges) ==
    LET volts == [i \in 1..Len(positions) |->
                   [k \in 1..Len(positions[i]) |->
                      fadd(fmul(fdiv(fsub(voltage_ranges[i][2], voltage_ranges[i][1]),
                                     fsub(position_ranges[i][2], position_ranges[i][1])),
                                fsub(positions[i][k], position_ranges[i][1])),
                           voltage_ranges[i][1])]]
        exceeds(i) == \E k \in 1..Len(volts[i]) :
                          \/ flt(volts[i][k], voltage_ranges[i][1])
                          \/ flt(voltage_ranges[i][2], volts[i][k])
    IN IF positions = NoneArg
       THEN [ret |-> NaNArray, log |-> "Given position list is no array type."]
       ELSE IF \E i \in 1..Len(volts) : exceeds(i)
       THEN [ret |-> NaNArray, log |-> "Voltages exceed the limit"]
       ELSE [ret |-> volts, log |-> ""]

\* integers as floats, element by element
Floats(seq) == [i \in 1..Len(seq) |-> Float(seq[i], 0)]
FloatRows(rows) == [i \in 1..Len(rows) |-> Floats(rows[i])]

\* per axis a voltage range and a position range: ranges whose ratio is a
\* power of two, and ranges whose ratio has no finite binary expansion
AxisRanges ==
    {[v |-> <<-2, 2>>, p |-> <<0, 2>>],
     [v |-> <<0, 2^Precision - 3>>, p |-> <<0, 6>>],
     [v |-> <<0, 2^Precision - 7>>, p |-> <<0, 6>>],
     [v |-> <<-2, 1>>, p |-> <<0, 6>>]}
RangeConfigs == AxisRanges \X AxisRanges
\* the pixels of one axis
PixelRows == {<<0>>, <<1>>, <<3>>, <<6>>, <<-1>>,
              <<0, 2>>, <<0, 6>>, <<3, 7>>}
PositionArrays == {m \in PixelRows \X PixelRows : Len(m[1]) = Len(m[2])}

ScannerPositionToVolt ==
    /\ UNCHANGED <<niVars, fctVars, guiVars, otherVars>>
    /\ closed' = {}
    /\ \E cfg \in RangeConfigs, positions \in PositionArrays \cup {NoneArg} :
           LET voltage_ranges == <<Floats(cfg[1].v), Floats(cfg[2].v)>>
               position_ranges == <<Floats(cfg[1].p), Floats(cfg[2].p)>>
               arg == IF positions = NoneArg THEN NoneArg ELSE FloatRows(positions)
               res == _scanner_position_to_volt(arg, voltage_ranges, position_ranges)
           IN /\ call' = [op |-> "_scanner_position_to_volt",
                          arg |-> [positions |-> arg,
                                   voltage_ranges |-> voltage_ranges,
                                   position_ranges |-> position_ranges]]
              /\ ret' = res.ret
              /\ log' = res.log

NextVolt == ScannerPositionToVolt

SpecVolt == InitRegistry /\ [][NextVolt]_vars

\* the position lies inside the position range of its axis
C39_Inside(i, P) ==
    /\ ~flt(P, call.arg.position_ranges[i][1])
    /\ ~flt(call.arg.position_ranges[i][2], P)

\* 2 * x = a + b, nothing rounded
C39_Halfway(x, a, b) ==
    LET e0 == Min(x.e, Min(a.e, b.e))
    IN 2 * x.m * 2^(x.e - e0) = a.m * 2^(a.e - e0) + b.m * 2^(b.e - e0)

(***************************************************************************)
(* C39: for each axis _scanner_position_to_volt maps position P to         *)
(* V = (Vmax - Vmin) / (Pmax - Pmin) * (P - Pmin) + Vmin; every position   *)
(* inside [Pmin, Pmax] yields a voltage inside [Vmin, Vmax] (the range     *)
(* midpoint maps to the voltage midpoint), and if any position of the      *)
(* input maps outside the voltage range the whole result is the NaN        *)
(* failure value.                                                          *)
(***************************************************************************)
C39_PositionToVolt ==
    (call.op = "_scanner_position_to_volt" /\ call.arg.positions # NoneArg)
    => LET positions == call.arg.positions
           vr == call.arg.voltage_ranges
           pr == call.arg.position_ranges
           Pixels == {<<i, k>> \in (1..NAxes) \X (1..2) : k <= Len(positions[i])}
       IN /\ (\A x \in Pixels : C39_Inside(x[1], positions[x[1]][x[2]]))
               => /\ ret # NaNArray
                  /\ \A x \in Pixels :
                         /\ ~flt(ret[x[1]][x[2]], vr[x[1]][1])
                         /\ ~flt(vr[x[1]][2], ret[x[1]][x[2]])
                         /\ C39_Halfway(positions[x[1]][x[2]], pr[x[1]][1], pr[x[1]][2])
                                => C39_Halfway(ret[x[1]][x[2]], vr[x[1]][1], vr[x[1]][2])
          /\ (\E x \in Pixels : ~C39_Inside(x[1], positions[x[1]][x[2]]))
               => ret = NaNArray

(***************************************************************************)
(* C14: in the cavity console, while a scan or a stabilisation run is      *)
(* active, every scan parameter input is disabled, the start and the       *)
(* stabilize action are disabled and the two stop actions are enabled.  A  *)
(* scan whose stop was requested counts as no longer active.               *)
(***************************************************************************)
RunActive == run = "stabilisation" \/ (run = "scan" /\ ~stopRequested)

C14_InputsLockedWhileRunning ==
    RunActive => /\ \A w \in ParamWidgets \cup StartActions : ~enabled[w]
                 /\ \A w \in StopActions : enabled[w]

(***************************************************************************)
(* C15: when the scan resolution entry changes and the maximal resolution  *)
(* of the span [min(start, end), max(start, end)] exceeds the entered      *)
(* value, the stored and the displayed resolution become that maximum;     *)
(* otherwise the stored resolution becomes the entered value and the       *)
(* displayed value stays as entered.                                       *)
(***************************************************************************)
C15_Step ==
    call'.op = "scan_resolution_changed"
    => IF maximal_scan_resolution > call'.arg
       THEN /\ scan_resolution' = maximal_scan_resolution
            /\ scan_resolution_spinBox' = maximal_scan_resolution
       ELSE /\ scan_resolution' = call'.arg
            /\ scan_resolution_spinBox' = call'.arg

C15_ResolutionClamp == [][C15_Step]_vars

C15_Witness ==
    /\ call.op = "scan_resolution_changed"
    /\ call.arg < scan_resolution
    /\ scan_resolution = scan_resolution_spinBox

(***************************************************************************)
(* C11: a public operation of the counting-card driver in which a call     *)
(* into the native library fails returns the sentinel -1; no exception     *)
(* reaches the caller.                                                     *)
(***************************************************************************)
C11_Step == (dll_error' /\ pc' = "idle") => ret' = -1

C11_DeviceFailureGivesSentinel == [][C11_Step]_vars

(***************************************************************************)
(* C12: every scan_line call that does not complete (scanner counter not   *)
(* set up, scanner analogue input not set up, line_path not of an array    *)
(* type, an exception inside the scan) returns the single-element error    *)
(* sentinel array, and the current position becomes the final point of the *)
(* line only when the scan completes.                                      *)
(***************************************************************************)
C12_Step ==
    call'.op = "scan_line"
    => /\ ret' # LineData => ret' = LineError /\ UNCHANGED current_position
       /\ current_position' # current_position => ret' = LineData

C12_FailedScanReturnsSentinelArray == [][C12_Step]_vars

(***************************************************************************)
(* C13: a get_counter call that fails (no counter task, a failing read)    *)
(* returns an array of shape [counter channels, samples] filled with -1,   *)
(* for every samples argument, the default None included, and never        *)
(* raises.                                                                 *)
(***************************************************************************)
C13_Step ==
    call'.op = "get_counter"
    => /\ ret' # Raised
       /\ log' # "" => \E n \in 1..default_samples_number :
                          all_data' = ErrorArray(counter_channels, n)

C13_FailedReadReturnsErrorArray == [][C13_Step]_vars

(***************************************************************************)
(* C16: the pulse frequency handed to the device when a clock is created   *)
(* is the nominal clock frequency of the role, for the fixed-role clocks   *)
(* of set_up_clock as for the registry clocks of set_up_clock_new.  As     *)
(* stated (twice the nominal frequency for set_up_clock) the claim is      *)
(* C16_Original.                                                           *)
(***************************************************************************)
\* a set_up_clock or set_up_clock_new step that created a clock task
CreatedClock(op) ==
    /\ call'.op = op
    /\ ret' = 0
    /\ DOMAIN hwClock' # DOMAIN hwClock
NewClockTask == CHOOSE t \in DOMAIN hwClock' : t \notin DOMAIN hwClock
NominalFrequency ==
    IF call'.op = "set_up_clock_new" THEN clock_frequency_new'[call'.arg]
    ELSE IF call'.arg = "Scanner" THEN scanner_clock_frequency'
    ELSE clock_frequency'

C16_OriginalStep ==
    /\ CreatedClock("set_up_clock")
       => hwClock'[NewClockTask].pulse_frequency = 2 * NominalFrequency
    /\ CreatedClock("set_up_clock_new")
       => hwClock'[NewClockTask].pulse_frequency = NominalFrequency

C16_Original == [][C16_OriginalStep]_vars

C16_Step ==
    (CreatedClock("set_up_clock") \/ CreatedClock("set_up_clock_new"))
    => hwClock'[NewClockTask].pulse_frequency = NominalFrequency

C16_PulseFrequencyIsNominal == [][C16_Step]_vars

C16_Witness ==
    /\ call.op = "set_up_clock"
    /\ ret = 0
    /\ clock_daq_task \in DOMAIN hwClock
    /\ hwClock[clock_daq_task].pulse_frequency = clock_frequency
    /\ \E n \in DOMAIN clock_daq_task_new :
           /\ clock_daq_task_new[n] \in DOMAIN hwClock
           /\ hwClock[clock_daq_task_new[n]].pulse_frequency = clock_frequency_new[n]

(***************************************************************************)
(* C17: a get_counter or scan_line call that returns N logical samples     *)
(* read 2N raw samples and returns for logical sample k the sum of the     *)
(* raw samples 2k and 2k+1 (counted from 0) times the clock frequency of   *)
(* the role.                                                               *)
(***************************************************************************)
PairSums(raw, frequency) ==
    [k \in 1..(Len(raw) \div 2) |-> Times(Plus(raw[2 * k - 1], raw[2 * k]), frequency)]

C17_Step ==
    /\ (call'.op = "get_counter" /\ ret' = ArrayReturned /\ log' = "")
       => /\ Len(count_data') = 2 * Len(all_data'[1])
          /\ all_data'[1] = PairSums(count_data', clock_frequency')
    /\ (call'.op = "scan_line" /\ ret' = LineData)
       => /\ Len(count_data') = 2 * Len(all_data')
          /\ \A k \in 1..Len(all_data') :
                 all_data'[k][1] = PairSums(count_data', scanner_clock_frequency')[k]

C17_DoubleReadAndSum == [][C17_Step]_vars

(***************************************************************************)
(* C18: for every length_bins that set_length accepts, the length written  *)
(* to the card and returned is 64*floor(length_bins/64), and a get_length  *)
(* that follows with no cycle multiplier (ungated) reports that value.     *)
(***************************************************************************)
\* set_length with argument a passed the dimension check
C18_Accepted(c, r) == c.op = "set_length" /\ r = RoundedLength(c.arg)

C18_Step ==
    /\ (call'.op = "set_length" /\ LengthAccepted(setting, call'.arg))
       => /\ setting'.range = 64 * (call'.arg \div 64)
          /\ ret' = 64 * (call'.arg \div 64)
    /\ (C18_Accepted(call, ret) /\ log = "" /\ call'.op = "get_length" /\ ~gated)
       => ret' = 64 * (call.arg \div 64)

C18_LengthRoundedDownTo64 == [][C18_Step]_vars

(***************************************************************************)
(* C19: configure writes a record length in bins equal to                  *)
(* floor((record_length_s - trigger_safety) / bin_width) when ungated and  *)
(* floor((record_length_s + aom_delay) / bin_width) when gated, rounded    *)
(* down to a multiple of 64, where bin_width is the bin width set on the   *)
(* card; ungated, 1 us and 1 ns give 768 bins.                             *)
(***************************************************************************)
C19_Bins(record_length_s, bin_width) ==
    IF gated
    THEN (record_length_s + aom_delay) \div bin_width
    ELSE (record_length_s - trigger_safety) \div bin_width

C19_Step ==
    (call'.op = "configure" /\ ret' # Raised)
    => setting'.range =
         64 * (C19_Bins(call'.arg[2], get_binwidth(setting')) \div 64)

C19_ConfigureRecordLength == [][C19_Step]_vars

(***************************************************************************)
(* C20: after set_binwidth or configure with any requested bin width, the  *)
(* bitshift written to the card lies in 0..24, so the resulting bin width  *)
(* is minimal_binwidth * 2^bitshift for such a bitshift and is one of the  *)
(* 25 bin widths get_constraints reports.                                  *)
(***************************************************************************)
C20_Step ==
    (call'.op \in {"set_binwidth", "configure"} /\ ret' # Raised)
    => /\ get_bitshift(setting') \in 0..MaxBitshift
       /\ get_binwidth(setting') \in hardware_binwidth_list

C20_BitshiftInRange == [][C20_Step]_vars

(***************************************************************************)
(* C1: when the scanner-clock role and the counter-clock role are bound to *)
(* the same physical channel, at most one of the two fixed-role clock      *)
(* tasks is open; a set_up_clock for one role, made while the other role's *)
(* clock is open on the channel the call binds its role to, returns -1 and *)
(* leaves both clock task handles and the open clock task untouched.       *)
(***************************************************************************)
BothClocksOpen == clock_daq_task # None /\ scanner_clock_daq_task # None

C1_Step ==
    /\ (clock_channel' = scanner_clock_channel' => ~BothClocksOpen')
    /\ (/\ call'.op = "set_up_clock"
        /\ clock_channel' = scanner_clock_channel'
        /\ IF call'.arg = "Scanner" THEN clock_daq_task # None
                                    ELSE scanner_clock_daq_task # None)
       => /\ ret' = -1
          /\ UNCHANGED <<clock_daq_task, scanner_clock_daq_task, hwClock>>

C1_ClockPairExclusive == [][C1_Step]_vars

\* a scanner-clock set-up was turned down while the counter clock was open
\* on the shared channel
C1_Witness ==
    /\ call = [op |-> "set_up_clock", arg |-> "Scanner"]
    /\ ret = -1
    /\ log = "Only one clock channel is available"
    /\ clock_channel = scanner_clock_channel
    /\ clock_daq_task # None
    /\ scanner_clock_daq_task = None
    /\ clock_daq_task \in DOMAIN hwClock

(***************************************************************************)
(* C2: no physical clock channel is held by two different open clock       *)
(* tasks, and two names are bound to the same channel only if they hold    *)
(* the same task (one was attached to the other's task through             *)
(* add_clock_task_to_channel).                                             *)
(***************************************************************************)
OpenClockTasks == Referenced \cap DOMAIN hwClock

C2_OneOwnerPerChannel ==
    /\ \A t1 \in OpenClockTasks, t2 \in OpenClockTasks :
           t1 # t2 => hwClock[t1].channel # hwClock[t2].channel
    /\ \A n \in DOMAIN clock_channel_new, m \in DOMAIN clock_channel_new :
           (n # m /\ clock_channel_new[n] = clock_channel_new[m])
           => /\ n \in DOMAIN clock_daq_task_new
              /\ m \in DOMAIN clock_daq_task_new
              /\ clock_daq_task_new[n] = clock_daq_task_new[m]

(***************************************************************************)
(* C5: a set_up_clock, set_up_clock_new or set_up_finite_counter_clock     *)
(* call that is turned down because the role, name or channel is already   *)
(* bound returns -1 and leaves every clock field and registry map as it    *)
(* was.                                                                    *)
(***************************************************************************)
AlreadyBoundMessages ==
    {"Another counter clock is already running",
     "Another scanner clock is already running",
     "Only one clock channel is available",
     "A clock task for this axis is already running",
     "This clock channel is already being used"}

C5_Step ==
    (/\ call'.op \in {"set_up_clock", "set_up_clock_new", "set_up_finite_counter_clock"}
     /\ log' \in AlreadyBoundMessages)
    => /\ ret' = -1
       /\ UNCHANGED clockVars

C5_RejectedSetUpKeepsClockState == [][C5_Step]_vars

(***************************************************************************)
(* C7: close_clock_new(name) for a registered name removes name and every  *)
(* other name that shares its task from the task, channel and frequency    *)
(* maps and stops and clears that task once; names bound to other tasks    *)
(* keep their entries.  C7_Original states it for every call on a          *)
(* registered name, C7_CloseClockNewReleases for the calls that return 0   *)
(* (DAQmxStopTask and DAQmxClearTask succeed).                             *)
(***************************************************************************)
C7_Released(n) ==
    LET t == clock_daq_task_new[n]
        sharers == {k \in DOMAIN clock_daq_task_new : clock_daq_task_new[k] = t}
        Kept(m) == \A k \in (DOMAIN m) \ sharers : k \in DOMAIN m' /\ m'[k] = m[k]
    IN
    /\ \A k \in sharers : /\ k \notin DOMAIN clock_daq_task_new'
                          /\ k \notin DOMAIN clock_channel_new'
                          /\ k \notin DOMAIN clock_frequency_new'
    /\ Kept(clock_daq_task_new)
    /\ Kept(clock_channel_new)
    /\ Kept(clock_frequency_new)
    /\ t \in DOMAIN hwClock
    /\ DOMAIN hwClock' = (DOMAIN hwClock) \ {t}

C7_OriginalStep ==
    (call'.op = "close_clock_new" /\ call'.arg \in DOMAIN clock_daq_task_new)
    => C7_Released(call'.arg)

C7_Step ==
    (call'.op = "close_clock_new" /\ ret' = 0)
    => (call'.arg \in DOMAIN clock_daq_task_new /\ C7_Released(call'.arg))

====
